---- MODULE Spec2Model ----
(***************************************************************************)
(* The filter-and-aggregation engine of the analytics API:                 *)
(*   app/utils/helpers.py         add_computed_attributes, apply_filter    *)
(*   app/utils/filter_helpers.py  apply_structured_filter, apply_nl_filter *)
(*   app/utils/router_helpers.py  filter_entity_data                       *)
(*   app/routers/agents.py, merchants.py, customers.py  the filter routes  *)
(*   app/core/data.py, app/utils/caching.py  the dataset provider          *)
(*                                                                         *)
(* A DataFrame is a record [columns |-> <<names>>, rows |-> <<rows>>]; a   *)
(* row is a function from column names to cells.  A filter object (a JSON  *)
(* dict) is a TLA+ record, so "'and' in filter_obj" is "and" \in DOMAIN f. *)
(* A JSON value is [num |-> n] (a scalar) or [list |-> <<n, ...>>].        *)
(***************************************************************************)
EXTENDS Integers, Sequences, FiniteSets, TLC

VARIABLES
    table,      \* the table the request starts from (rows of transactions)
    df,         \* the request's working DataFrame (raw, or enriched)
    id_col,     \* the grouping column the request enriched on ("" if none)
    filter,     \* the filter object of the last evaluation ({} before any)
    result,     \* what apply_filter returned or raised for `filter`
    response,   \* the HTTP outcome of apply_structured_filter
    pc,         \* "loaded" -> "enriched" -> "filtered"
    shared_df,  \* core/data.py _df: the DataFrame object get_df hands out
    request,    \* the route and the parameters of the request being served
    projection, \* the attribute_cols passed to apply_structured_filter
    intent_task,      \* the task of the intent-classification call
    group_by_task,    \* the task of the grouping-column call
    intent_result,    \* what asyncio.gather handed back for intent_task
    group_by_result,  \* what asyncio.gather handed back for group_by_task
    filter_result,    \* the filter-extraction call and what it returned
    steps,      \* the calls the natural-language handler made, in order
    csv_path,   \* the canonical CSV on disk (settings.csv_path)
    cache,      \* utils/caching.py _cache: the entry of get_df
    lock,       \* core/data.py _lock: 0 when free, else the call holding it
    uploads,    \* the replace_dataset calls: position, staged file, locals
    promoted,   \* the calls whose file reached csv_path, in that order
    reader      \* a get_df() call: position, locals and what it returned

vars == <<table, df, id_col, filter, result, response, pc,
          shared_df, request, projection,
          intent_task, group_by_task, intent_result, group_by_result,
          filter_result, steps,
          csv_path, cache, lock, uploads, promoted, reader>>

\* The variables the entry points add to those of the filter engine.
route_vars == <<shared_df, request, projection>>

\* The variables of the natural-language handler.
nl_vars == <<intent_task, group_by_task, intent_result, group_by_result,
             filter_result, steps>>

\* The variables of the dataset provider (core/data.py, utils/caching.py).
data_vars == <<csv_path, cache, lock, uploads, promoted, reader>>

----------------------------------------------------------------------------
(* Bounds of the model. *)

MaxRows == 2        \* rows of a table: 1..MaxRows
MaxAmount == 1      \* comparison values and aggregated amounts: 0..MaxAmount
MaxNodes == 4       \* nodes (and, or, not, leaf) of a nested filter object
MaxList == 3        \* length of a list value: 0..MaxList
MaxTxns == 3        \* rows of a table of several entities: 1..MaxTxns

----------------------------------------------------------------------------
(* Cells.  An integer-valued cell is an integer >= 0 or NaN.  The mean and *)
(* the sample standard deviation are not integers: a mean is kept as the   *)
(* exact fraction [num |-> sum, den |-> count], a standard deviation as    *)
(* the exact fraction of its square (the variance); den = 0 is NaN (0/0).  *)

NaN == 0 - 1

FracNaN == [num |-> 0, den |-> 0]

RECURSIVE SumSeq(_)
SumSeq(s) == IF s = <<>> THEN 0 ELSE Head(s) + SumSeq(Tail(s))

SeqMin(s) == IF s = <<>> THEN NaN
             ELSE CHOOSE x \in {s[i] : i \in 1..Len(s)} :
                      \A j \in 1..Len(s) : x <= s[j]

SeqMax(s) == IF s = <<>> THEN NaN
             ELSE CHOOSE x \in {s[i] : i \in 1..Len(s)} :
                      \A j \in 1..Len(s) : x >= s[j]

Squares(s) == [i \in 1..Len(s) |-> s[i] * s[i]]

NotNull(s) == SelectSeq(s, LAMBDA c : c # NaN)

\* Mutant of Count: 'size', the rows of the group, null amounts included.
Count_size(s) == Len(s)

\* 'count': the non-null cells.
Count(s) == Len(NotNull(s))

\* Mutant of NUnique: nunique(dropna=False), the null counted as a value.
NUnique_keepna(s) == Cardinality({s[i] : i \in 1..Len(s)})

\* nunique(): the distinct non-null cells.
NUnique(s) == Cardinality({s[i] : i \in 1..Len(s)} \ {NaN})

----------------------------------------------------------------------------
(* Columns. *)

RawColumns == <<"transaction_id", "customer_id", "merchant_id", "terminal_id",
                "branch_admin_id", "agent_id", "amount">>

SeqToSet(s) == {s[i] : i \in 1..Len(s)}

Column(d, col) == [i \in 1..Len(d.rows) |-> d.rows[i][col]]

\* dtype of a column: "int" (integer or NaN), "mean" or "std" (fractions).
ColKind(col) ==
    IF col = "avg_transaction_amount" THEN "mean"
    ELSE IF col = "std_transaction_amount" THEN "std"
    ELSE "int"

----------------------------------------------------------------------------
(* Exceptions.  A call returns its value or a record [exc, msg]. *)

Raise(type, msg) == [exc |-> type, msg |-> msg]

\* None where a column name is expected (a JSON null group_by_column).
NullColumn == "null"

IsExc(r) == "exc" \in DOMAIN r

----------------------------------------------------------------------------
(* add_computed_attributes (helpers.py 217-255). *)

RECURSIVE SortedSeq(_)
SortedSeq(S) ==
    IF S = {} THEN <<>>
    ELSE LET m == CHOOSE x \in S : \A y \in S : x <= y
         IN  <<m>> \o SortedSeq(S \ {m})

\* Mutant of GroupKeys: the null key kept as a group (dropna=False).
GroupKeys_keepna(d, by) == SortedSeq(SeqToSet(Column(d, by)))

\* df.groupby(id_col): the group keys, sorted; rows with a null key belong
\* to no group (dropna=True is the default).
GroupKeys(d, by) == SortedSeq(SeqToSet(Column(d, by)) \ {NaN})

GroupRows(d, by, k) == SelectSeq(d.rows, LAMBDA r : r[by] = k)

GroupColumn(d, by, k, col) ==
    LET g == GroupRows(d, by, k) IN [i \in 1..Len(g) |-> g[i][col]]

\* ['amount'].agg([mean, count, sum, min, max, std]).reset_index(): one row
\* per group; every aggregate skips null amounts.
AggAmount(d, by) ==
    LET keys == GroupKeys(d, by)
        row(k) ==
            LET a == NotNull(GroupColumn(d, by, k, "amount"))
                n == Count(GroupColumn(d, by, k, "amount"))
                s == SumSeq(a)
                q == SumSeq(Squares(a))
            IN  (by :> k) @@
                [avg_transaction_amount |-> [num |-> s, den |-> n],
                 total_transactions     |-> n,
                 sum_transaction_amount |-> s,
                 min_transaction_amount |-> SeqMin(a),
                 max_transaction_amount |-> SeqMax(a),
                 std_transaction_amount |->
                     [num |-> n * q - s * s, den |-> n * (n - 1)]]
    IN  [i \in 1..Len(keys) |-> row(keys[i])]

\* df.groupby(id_col)[src].nunique().reset_index(), renamed to `name`.
AggNUnique(d, by, src, name) ==
    LET keys == GroupKeys(d, by)
    IN  [i \in 1..Len(keys) |->
            (by :> keys[i]) @@ (name :> NUnique(GroupColumn(d, by, keys[i], src)))]

NullCell(col) == IF ColKind(col) = "int" THEN NaN ELSE FracNaN

RECURSIVE Flatten(_)
Flatten(ss) == IF ss = <<>> THEN <<>> ELSE Head(ss) \o Flatten(Tail(ss))

\* left.merge(right, on=on, how='left'): every left row, in the left order,
\* once per right row with an equal key (null keys match null keys), or
\* once with nulls in the right's columns when no right row matches.
MergeLeft(left, right, on, cols) ==
    LET nulls == [c \in SeqToSet(cols) |-> NullCell(c)]
        joined(r) ==
            LET m == SelectSeq(right, LAMBDA g : g[on] = r[on])
            IN  IF m = <<>> THEN <<r @@ nulls>>
                ELSE [j \in 1..Len(m) |-> r @@ m[j]]
    IN  Flatten([i \in 1..Len(left) |-> joined(left[i])])

AmountAggColumns ==
    <<"avg_transaction_amount", "total_transactions", "sum_transaction_amount",
      "min_transaction_amount", "max_transaction_amount", "std_transaction_amount">>

\* The unique-count columns added for a grouping column, as <<source, name>>.
UniqueColumns(by) ==
    (IF by # "customer_id" THEN << <<"customer_id", "unique_customers">> >> ELSE <<>>)
    \o (IF by = "merchant_id"
        THEN << <<"branch_admin_id", "unique_branch_admins">>,
                <<"terminal_id", "unique_terminals">> >>
        ELSE IF by = "branch_admin_id"
        THEN << <<"terminal_id", "unique_terminals">> >>
        ELSE <<>>)

\* agg_df.merge(unique_..., on=id_col, how='left'), once per unique column.
MergeUniques(agg, d, by) ==
    LET step(acc, u) == MergeLeft(acc, AggNUnique(d, by, u[1], u[2]), by, <<u[2]>>)
        us == UniqueColumns(by)
        F[i \in 0..Len(us)] == IF i = 0 THEN agg ELSE step(F[i - 1], us[i])
    IN  F[Len(us)]

add_computed_attributes(d, by) ==
    IF by = NullColumn
    THEN Raise("TypeError", "You have to supply one of 'by' and 'level'")
    ELSE IF by \notin SeqToSet(d.columns) THEN Raise("KeyError", by)
    ELSE
        LET us      == UniqueColumns(by)
            agg_df  == MergeUniques(AggAmount(d, by), d, by)
            aggcols == AmountAggColumns \o [i \in 1..Len(us) |-> us[i][2]]
        IN  [columns |-> d.columns \o aggcols,
             rows    |-> MergeLeft(d.rows, agg_df, by, aggcols)]

----------------------------------------------------------------------------
(* apply_filter (helpers.py 316-357). *)

Sign(x) == IF x < 0 THEN "lt" ELSE IF x = 0 THEN "eq" ELSE "gt"

\* Mutant of Cmp: a null cell compared as 0 (the column filled with 0).
Cmp_fillna(kind, cell, v) ==
    IF kind = "int" THEN Sign((IF cell = NaN THEN 0 ELSE cell) - v)
    ELSE IF cell.den = 0 THEN Sign(0 - v)
    ELSE IF kind = "mean" THEN Sign(cell.num - v * cell.den)
    ELSE IF v < 0 THEN "gt"
    ELSE Sign(cell.num - v * v * cell.den)

\* How a cell compares with the number v: "lt", "eq", "gt", or "nan" for a
\* null cell (every comparison with NaN but != is False).  A mean num/den is
\* compared as num - v*den; a standard deviation sqrt(num/den) >= 0 is above
\* every v < 0 and compared by its square otherwise.
Cmp(kind, cell, v) ==
    IF kind = "int" THEN (IF cell = NaN THEN "nan" ELSE Sign(cell - v))
    ELSE IF cell.den = 0 THEN "nan"
    ELSE IF kind = "mean" THEN Sign(cell.num - v * cell.den)
    ELSE IF v < 0 THEN "gt"
    ELSE Sign(cell.num - v * v * cell.den)

\* Mutant of SeriesNe: a null cell compares False, as with the other
\* comparisons.
SeriesNe_nullfalse(kind, s, v) ==
    [i \in 1..Len(s) |-> Cmp(kind, s[i], v) \in {"lt", "gt"}]

\* s == val, s != val, s > val, s >= val, s < val, s <= val
SeriesEq(kind, s, v) == [i \in 1..Len(s) |-> Cmp(kind, s[i], v) = "eq"]
SeriesNe(kind, s, v) == [i \in 1..Len(s) |-> Cmp(kind, s[i], v) # "eq"]
SeriesGt(kind, s, v) == [i \in 1..Len(s) |-> Cmp(kind, s[i], v) = "gt"]
SeriesGe(kind, s, v) == [i \in 1..Len(s) |-> Cmp(kind, s[i], v) \in {"gt", "eq"}]
SeriesLt(kind, s, v) == [i \in 1..Len(s) |-> Cmp(kind, s[i], v) = "lt"]
SeriesLe(kind, s, v) == [i \in 1..Len(s) |-> Cmp(kind, s[i], v) \in {"lt", "eq"}]

\* Mutant of SeriesBetween: the upper bound exclusive (inclusive="left").
SeriesBetween_exclusive(kind, s, left, right) ==
    [i \in 1..Len(s) |-> SeriesGe(kind, s, left)[i] /\ SeriesLt(kind, s, right)[i]]

\* Series.between(left, right), inclusive="both": (s >= left) & (s <= right).
SeriesBetween(kind, s, left, right) ==
    [i \in 1..Len(s) |-> SeriesGe(kind, s, left)[i] /\ SeriesLe(kind, s, right)[i]]

\* Series.isin(values): membership by equality; a null cell is in no list
\* of numbers.
SeriesIsin(kind, s, values) ==
    [i \in 1..Len(s) |-> \E j \in 1..Len(values) : Cmp(kind, s[i], values[j]) = "eq"]

\* Mutant of Invert: ~ taken bitwise on integers (~1 = -2, ~0 = -1), both
\* of them truthy.
Invert_bitwise(mask) == [i \in 1..Len(mask) |-> TRUE]

\* ~mask
Invert(mask) == [i \in 1..Len(mask) |-> ~mask[i]]

\* Mutant of ConcatAll: any(axis=1) in place of all(axis=1).
ConcatAll_any(masks) ==
    IF masks = <<>> THEN Raise("ValueError", "No objects to concatenate")
    ELSE [mask |-> [i \in 1..Len(masks[1]) |->
                        \E k \in 1..Len(masks) : masks[k][i]]]

\* pd.concat(masks, axis=1).all(axis=1); pd.concat raises ValueError on an
\* empty list.
ConcatAll(masks) ==
    IF masks = <<>> THEN Raise("ValueError", "No objects to concatenate")
    ELSE [mask |-> [i \in 1..Len(masks[1]) |->
                        \A k \in 1..Len(masks) : masks[k][i]]]

\* pd.concat(masks, axis=1).any(axis=1)
ConcatAny(masks) ==
    IF masks = <<>> THEN Raise("ValueError", "No objects to concatenate")
    ELSE [mask |-> [i \in 1..Len(masks[1]) |->
                        \E k \in 1..Len(masks) : masks[k][i]]]

IsNum(val) == "num" \in DOMAIN val

\* val[0], val[1] of line 351: subscripting a number is a TypeError, an index
\* past the end of a list an IndexError; elements beyond the second are
\* never read.
BetweenLeaf(kind, s, val) ==
    IF IsNum(val) THEN Raise("TypeError", "'int' object is not subscriptable")
    ELSE IF Len(val.list) < 2 THEN Raise("IndexError", "list index out of range")
    ELSE [mask |-> SeriesBetween(kind, s, val.list[1], val.list[2])]

\* Series.isin raises TypeError for an argument that is not list-like.
IsinLeaf(kind, s, val) ==
    IF IsNum(val)
    THEN Raise("TypeError", "only list-like objects are allowed to be passed to isin()")
    ELSE [mask |-> SeriesIsin(kind, s, val.list)]

\* The operator chain of lines 338-357, on the column s.  The six scalar
\* comparisons are modelled for a number value.
LeafOp(col, op, kind, s, val) ==
    IF      op = "equals"              THEN [mask |-> SeriesEq(kind, s, val.num)]
    ELSE IF op = "not_equals"          THEN [mask |-> SeriesNe(kind, s, val.num)]
    ELSE IF op = "greater_than"        THEN [mask |-> SeriesGt(kind, s, val.num)]
    ELSE IF op = "greater_than_equals" THEN [mask |-> SeriesGe(kind, s, val.num)]
    ELSE IF op = "less_than"           THEN [mask |-> SeriesLt(kind, s, val.num)]
    ELSE IF op = "less_than_equals"    THEN [mask |-> SeriesLe(kind, s, val.num)]
    ELSE IF op = "between"             THEN BetweenLeaf(kind, s, val)
    ELSE IF op = "in"                  THEN IsinLeaf(kind, s, val)
    ELSE IF op = "not_in"              THEN
        LET r == IsinLeaf(kind, s, val)
        IN  IF IsExc(r) THEN r ELSE [mask |-> Invert(r.mask)]
    ELSE Raise("ValueError",
               "Unsupported operator: '" \o op \o "' for column '" \o col \o "'")

\* Mutant of Leaf: the operator is checked before the column.
Leaf_operator_first(d, f) ==
    IF "column" \notin DOMAIN f THEN Raise("KeyError", "column")
    ELSE IF "operator" \notin DOMAIN f THEN Raise("KeyError", "operator")
    ELSE IF "value" \notin DOMAIN f THEN Raise("KeyError", "value")
    ELSE IF f.operator \notin {"equals", "not_equals", "greater_than",
                                "greater_than_equals", "less_than",
                                "less_than_equals", "between", "in", "not_in"}
    THEN Raise("ValueError", "Unsupported operator: '" \o f.operator
                              \o "' for column '" \o f.column \o "'")
    ELSE IF f.column \notin SeqToSet(d.columns)
    THEN Raise("ValueError", "Unsupported column: '" \o f.column \o "'")
    ELSE LeafOp(f.column, f.operator, ColKind(f.column), Column(d, f.column), f.value)

\* The else branch of lines 329-357: the three dict lookups, the column
\* check, then the operator chain.
Leaf(d, f) ==
    IF "column" \notin DOMAIN f THEN Raise("KeyError", "column")
    ELSE IF "operator" \notin DOMAIN f THEN Raise("KeyError", "operator")
    ELSE IF "value" \notin DOMAIN f THEN Raise("KeyError", "value")
    ELSE IF f.column \notin SeqToSet(d.columns)
    THEN Raise("ValueError", "Unsupported column: '" \o f.column \o "'")
    ELSE LeafOp(f.column, f.operator, ColKind(f.column), Column(d, f.column), f.value)

\* Mutant of FirstExc: a child that raises is left out of the combination.
FirstExc_skip(rs) ==
    LET ok == SelectSeq(rs, LAMBDA r : ~IsExc(r))
    IN  IF ok = <<>> /\ rs # <<>> THEN rs[1]
        ELSE [masks |-> [i \in 1..Len(ok) |-> ok[i].mask]]

\* [apply_filter(df, f) for f in children]: the children's results in list
\* order; the first child that raises ends the comprehension.
FirstExc(rs) ==
    LET bad == {i \in 1..Len(rs) : IsExc(rs[i])}
    IN  IF bad = {} THEN [masks |-> [i \in 1..Len(rs) |-> rs[i].mask]]
        ELSE rs[CHOOSE i \in bad : \A j \in bad : i <= j]

\* Mutant of apply_filter: 'or' is looked for before 'and'.
RECURSIVE apply_filter_or_first(_, _)
apply_filter_or_first(d, f) ==
    IF "or" \in DOMAIN f THEN
        LET r == FirstExc([i \in 1..Len(f.or) |-> apply_filter_or_first(d, f.or[i])])
        IN  IF IsExc(r) THEN r ELSE ConcatAny(r.masks)
    ELSE IF "and" \in DOMAIN f THEN
        LET r == FirstExc([i \in 1..Len(f.and) |-> apply_filter_or_first(d, f.and[i])])
        IN  IF IsExc(r) THEN r ELSE ConcatAll(r.masks)
    ELSE IF "not" \in DOMAIN f THEN
        LET r == apply_filter_or_first(d, f.not)
        IN  IF IsExc(r) THEN r ELSE [mask |-> Invert(r.mask)]
    ELSE Leaf(d, f)

RECURSIVE apply_filter(_, _)
apply_filter(d, f) ==
    IF "and" \in DOMAIN f THEN
        LET r == FirstExc([i \in 1..Len(f.and) |-> apply_filter(d, f.and[i])])
        IN  IF IsExc(r) THEN r ELSE ConcatAll(r.masks)
    ELSE IF "or" \in DOMAIN f THEN
        LET r == FirstExc([i \in 1..Len(f.or) |-> apply_filter(d, f.or[i])])
        IN  IF IsExc(r) THEN r ELSE ConcatAny(r.masks)
    ELSE IF "not" \in DOMAIN f THEN
        LET r == apply_filter(d, f.not)
        IN  IF IsExc(r) THEN r ELSE [mask |-> Invert(r.mask)]
    ELSE Leaf(d, f)

----------------------------------------------------------------------------
(* apply_structured_filter (filter_helpers.py 9-48).  The outcome is the   *)
(* HTTP response: 200 with the entity list, 400 for a ValueError (line 47), *)
(* 500 for any other exception, which leaves the handler uncaught.         *)

\* df[mask]
SelectRows(rows, mask) ==
    LET keep == {i \in 1..Len(rows) : mask[i]}
        idx  == SortedSeq(keep)
    IN  [j \in 1..Len(idx) |-> rows[idx[j]]]

\* Mutant of DropDuplicates: keep='last', the last row of each id.
DropDuplicates_last(rows, by) ==
    LET last == {i \in 1..Len(rows) :
                    \A j \in (i + 1)..Len(rows) : rows[j][by] # rows[i][by]}
        idx  == SortedSeq(last)
    IN  [j \in 1..Len(idx) |-> rows[idx[j]]]

\* drop_duplicates(id_col): the first row of each id, in row order.
DropDuplicates(rows, by) ==
    LET first == {i \in 1..Len(rows) : \A j \in 1..(i - 1) : rows[j][by] # rows[i][by]}
        idx   == SortedSeq(first)
    IN  [j \in 1..Len(idx) |-> rows[idx[j]]]

\* filtered_df[available_cols]...to_dict(orient='records'): a record is the
\* list of its <<column, cell>> pairs, in the order of available_cols.
ToRecords(rows, cols) ==
    [i \in 1..Len(rows) |-> [k \in 1..Len(cols) |-> <<cols[k], rows[i][cols[k]]>>]]

\* Mutant of Respond: filtered_df[attribute_cols], a KeyError when a
\* requested column is not in the table.
Respond_strict(d, r, by, attribute_cols) ==
    IF IsExc(r) THEN
        IF r.exc = "ValueError" THEN [status |-> 400, detail |-> r.msg]
        ELSE [status |-> 500, detail |-> r.exc]
    ELSE
        LET filtered_df == SelectRows(d.rows, r.mask)
        IN  IF filtered_df = <<>> THEN [status |-> 200, body |-> <<>>]
            ELSE IF ~(SeqToSet(attribute_cols) \subseteq SeqToSet(d.columns))
            THEN [status |-> 500, detail |-> "KeyError"]
            ELSE [status |-> 200,
                  body   |-> ToRecords(DropDuplicates(filtered_df, by),
                                       attribute_cols)]

\* Mutant of Respond: an empty selection answered with 404.
Respond_empty404(d, r, by, attribute_cols) ==
    IF IsExc(r) THEN
        IF r.exc = "ValueError" THEN [status |-> 400, detail |-> r.msg]
        ELSE [status |-> 500, detail |-> r.exc]
    ELSE
        LET filtered_df    == SelectRows(d.rows, r.mask)
            available_cols == SelectSeq(attribute_cols,
                                        LAMBDA c : c \in SeqToSet(d.columns))
        IN  IF filtered_df = <<>> THEN [status |-> 404, detail |-> "No data found"]
            ELSE IF by \notin SeqToSet(available_cols)
            THEN [status |-> 500, detail |-> "KeyError"]
            ELSE [status |-> 200,
                  body   |-> ToRecords(DropDuplicates(filtered_df, by),
                                       available_cols)]

\* Lines 35-48, given what apply_filter (line 32) returned or raised.
Respond(d, r, by, attribute_cols) ==
    IF IsExc(r) THEN
        IF r.exc = "ValueError" THEN [status |-> 400, detail |-> r.msg]
        ELSE [status |-> 500, detail |-> r.exc]
    ELSE
        LET filtered_df    == SelectRows(d.rows, r.mask)
            available_cols == SelectSeq(attribute_cols,
                                        LAMBDA c : c \in SeqToSet(d.columns))
        IN  IF filtered_df = <<>> THEN [status |-> 200, body |-> <<>>]
            ELSE IF by \notin SeqToSet(available_cols)
            THEN [status |-> 500, detail |-> "KeyError"]
            ELSE [status |-> 200,
                  body   |-> ToRecords(DropDuplicates(filtered_df, by),
                                       available_cols)]

apply_structured_filter(d, f, by, attribute_cols) ==
    Respond(d, apply_filter(d, f), by, attribute_cols)

----------------------------------------------------------------------------
(* The requests: tables and filter objects. *)

Amounts == {NaN} \cup (0..MaxAmount)

\* Sequences over S of length lo..hi.
SeqsOf(S, lo, hi) == UNION {[1..n -> S] : n \in lo..hi}

\* A table is a list of rows; transaction_id is the row's position.
MkTable(rows) ==
    [columns |-> RawColumns,
     rows    |-> [i \in 1..Len(rows) |-> ("transaction_id" :> i) @@ rows[i]]]

\* The transactions of one merchant of one agent (the table after
\* filter_entity_data has scoped it), of amount 0 or 1 or with no amount.
FilterRows ==
    [customer_id : {1}, merchant_id : {1}, terminal_id : {1},
     branch_admin_id : {1}, agent_id : {1}, amount : {NaN, 0, 1}]

FilterTables == {MkTable(rows) : rows \in SeqsOf(FilterRows, 1, MaxRows)}

Operators ==
    {"equals", "not_equals", "greater_than", "greater_than_equals", "less_than",
     "less_than_equals", "between", "in", "not_in"}

ScalarOperators == Operators \ {"between", "in", "not_in"}

Numbers == {[num |-> v] : v \in 0..MaxAmount}

\* The elements of a list value.
ListElements == {0, 1}

Lists == {[list |-> l] : l \in SeqsOf(ListElements, 0, MaxList)}

\* Columns a request names: raw, aggregate (known once enriched), unknown.
RequestColumns ==
    {"amount", "total_transactions", "avg_transaction_amount",
     "std_transaction_amount", "bogus"}

\* Complete column/operator/value triples.  "like" is not an operator of
\* apply_filter.  A list value goes with between, in and not_in only.
LeafRequests ==
    [column : RequestColumns, operator : ScalarOperators \cup {"like"}, value : Numbers]
    \cup [column : RequestColumns, operator : {"between", "in", "not_in"},
          value : Numbers \cup Lists]

\* Nodes that are none of the four shapes: {} and incomplete triples.
MalformedRequests ==
    {[x \in {} |-> 0],
     [column |-> "amount"],
     [column |-> "amount", operator |-> "equals"],
     [operator |-> "equals", value |-> [num |-> 0]]}

\* The leaves nested filters are built from: two that select rows, one with
\* an unknown column and one with an unsupported operator.
TreeLeaves ==
    {[column |-> "amount", operator |-> "greater_than_equals", value |-> [num |-> 1]],
     [column |-> "amount", operator |-> "equals", value |-> [num |-> 0]],
     [column |-> "bogus", operator |-> "equals", value |-> [num |-> 1]],
     [column |-> "amount", operator |-> "like", value |-> [num |-> 1]]}

\* Filter objects whose top node carries more than one of the keys 'and',
\* 'or', 'not' and the keys of a comparison.
MultiTagRequests ==
    UNION {{[and |-> <<a>>, or |-> <<b>>],
            [or |-> <<a>>, not |-> b],
            [not |-> a, column |-> b.column, operator |-> b.operator,
             value |-> b.value],
            [and |-> <<a>>, or |-> <<b>>, not |-> b, column |-> b.column,
             operator |-> b.operator, value |-> b.value]} :
               a \in TreeLeaves, b \in TreeLeaves}

\* The negations of a comparison on a column that can hold a null cell.
NegatedRequests ==
    {[not |-> l] :
        l \in [column : {"amount", "std_transaction_amount"},
               operator : {"equals", "greater_than"}, value : Numbers]
            \cup [column : {"amount", "std_transaction_amount"},
                  operator : {"in"}, value : Lists]}

\* TreesOfSize(n): the filter objects of exactly n nodes over TreeLeaves, every
\* child list non-empty; ChildLists(n): the child lists of n nodes in all.
RECURSIVE TreesOfSize(_), ChildLists(_)
TreesOfSize(n) ==
    IF n = 1 THEN TreeLeaves
    ELSE {[not |-> e] : e \in TreesOfSize(n - 1)}
         \cup {[and |-> cs] : cs \in ChildLists(n - 1)}
         \cup {[or |-> cs] : cs \in ChildLists(n - 1)}
ChildLists(n) ==
    {<<e>> : e \in TreesOfSize(n)}
    \cup UNION {{<<e>> \o cs : e \in TreesOfSize(k), cs \in ChildLists(n - k)} :
                k \in 1..(n - 1)}

\* Nested filters, and the two empty ones.
TreeRequests ==
    {[and |-> <<>>], [or |-> <<>>]} \cup UNION {TreesOfSize(n) : n \in 2..MaxNodes}

----------------------------------------------------------------------------
(* The structured-filter request (routers/agents.py 552-589, routers/      *)
(* merchants.py 356-375): the table is enriched on merchant_id or not, and *)
(* apply_structured_filter answers the request.                            *)

NoFilter == [x \in {} |-> 0]

NoResult == [none |-> TRUE]

NoResponse == [status |-> 0]

NoRequest == [route |-> ""]

NoTask == [state |-> "none"]

\* settings.csv_path does not exist.
NoFile == [name |-> 0 - 1]

\* core/data.py _df is None: nothing was loaded yet.
Unloaded == [loaded |-> FALSE]

\* utils/caching.py _cache holds no entry.
NoEntry == [key |-> ""]

\* No get_df() call was made.
NoReader ==
    [pc |-> "idle", local |-> Unloaded, ret |-> NoResult,
     newest |-> Unloaded, after |-> FALSE]

\* No model call was made: the state of every handler but the
\* natural-language one.
NoCalls ==
    /\ intent_task = NoTask
    /\ group_by_task = NoTask
    /\ intent_result = NoResult
    /\ group_by_result = NoResult
    /\ filter_result = NoResult
    /\ steps = <<>>

\* No upload and no get_df() call: the state of every handler that is
\* handed its table.
NoUploads ==
    /\ csv_path = NoFile
    /\ cache = NoEntry
    /\ lock = 0
    /\ uploads = <<>>
    /\ promoted = <<>>
    /\ reader = NoReader

attribute_cols_base ==
    <<"avg_transaction_amount", "total_transactions", "sum_transaction_amount",
      "min_transaction_amount", "max_transaction_amount", "std_transaction_amount",
      "unique_customers", "unique_merchants", "unique_branch_admins",
      "unique_terminals">>

Init ==
    /\ table \in FilterTables
    /\ df = table
    /\ id_col = ""
    /\ filter = NoFilter
    /\ result = NoResult
    /\ response = NoResponse
    /\ pc = "loaded"
    /\ shared_df = table
    /\ request = NoRequest
    /\ projection = <<>>
    /\ NoCalls
    /\ NoUploads

\* merchant_df = add_computed_attributes(df, 'merchant_id')
Enrich ==
    /\ pc = "loaded"
    /\ df' = add_computed_attributes(df, "merchant_id")
    /\ id_col' = "merchant_id"
    /\ pc' = "enriched"
    /\ UNCHANGED <<table, filter, result, response>>
    /\ UNCHANGED route_vars
    /\ UNCHANGED nl_vars
    /\ UNCHANGED data_vars

\* return apply_structured_filter(df, filter_structure, 'merchant_id', cols);
\* `result` keeps what its call of apply_filter (line 32) gave.
StructuredFilter(f) ==
    /\ filter' = f
    /\ result' = apply_filter(df, f)
    /\ response' = Respond(df, result', "merchant_id",
                          <<"merchant_id">> \o attribute_cols_base)
    /\ pc' = "filtered"
    /\ UNCHANGED <<table, df, id_col>>
    /\ UNCHANGED route_vars
    /\ UNCHANGED nl_vars
    /\ UNCHANGED data_vars

FilterLeaf ==
    /\ pc \in {"loaded", "enriched"}
    /\ \E f \in LeafRequests \cup MalformedRequests : StructuredFilter(f)

\* A nested filter is evaluated on the enriched table, as the route does:
\* its leaves name raw columns, which enrichment leaves as they are.
FilterTree ==
    /\ pc = "enriched"
    /\ \E f \in TreeRequests : StructuredFilter(f)

\* A filter object with several keys on its top node, on the enriched table.
FilterMultiTag ==
    /\ pc = "enriched"
    /\ \E f \in MultiTagRequests : StructuredFilter(f)

\* The negation of a comparison, on the enriched table.
FilterNegated ==
    /\ pc = "enriched"
    /\ \E f \in NegatedRequests : StructuredFilter(f)

Next == Enrich \/ FilterLeaf \/ FilterTree \/ FilterMultiTag \/ FilterNegated

Spec == Init /\ [][Next]_vars

----------------------------------------------------------------------------
(* The Attribute Aggregator on its own: add_computed_attributes applied to *)
(* one agent's table of several customers, terminals and branch admins, on *)
(* each grouping column.  branch_admin_id is optional: its cell may be     *)
(* null.                                                                   *)

AggRows ==
    [customer_id : {1, 2}, merchant_id : {1}, terminal_id : {1, 2},
     branch_admin_id : {NaN, 1}, agent_id : {1}, amount : Amounts]

AggTables == {MkTable(rows) : rows \in SeqsOf(AggRows, 1, MaxRows)}

\* The grouping columns the routes enrich on (routers/agents.py 584, 616-621).
GroupingColumns == {"merchant_id", "branch_admin_id", "terminal_id", "customer_id"}

InitAgg ==
    /\ table \in AggTables
    /\ df = table
    /\ id_col = ""
    /\ filter = NoFilter
    /\ result = NoResult
    /\ response = NoResponse
    /\ pc = "loaded"
    /\ shared_df = table
    /\ request = NoRequest
    /\ projection = <<>>
    /\ NoCalls
    /\ NoUploads

\* df = add_computed_attributes(df, id_col)
AddComputedAttributes ==
    /\ pc = "loaded"
    /\ \E by \in GroupingColumns :
          /\ df' = add_computed_attributes(df, by)
          /\ id_col' = by
    /\ pc' = "enriched"
    /\ UNCHANGED <<table, filter, result, response>>
    /\ UNCHANGED route_vars
    /\ UNCHANGED nl_vars
    /\ UNCHANGED data_vars

NextAgg == AddComputedAttributes

SpecAgg == InitAgg /\ [][NextAgg]_vars

----------------------------------------------------------------------------
(* Claims about the Filter Evaluator. *)

Filtered == pc = "filtered"

IsAnd(f) == "and" \in DOMAIN f
IsOr(f)  == ~IsAnd(f) /\ "or" \in DOMAIN f
IsNot(f) == ~IsAnd(f) /\ ~IsOr(f) /\ "not" \in DOMAIN f
IsTriple(f) ==
    /\ ~IsAnd(f) /\ ~IsOr(f) /\ ~IsNot(f)
    /\ {"column", "operator", "value"} \subseteq DOMAIN f

\* The nodes of a filter object: itself and the nodes of its children.
RECURSIVE Nodes(_)
Nodes(f) ==
    {f} \cup
    (IF IsAnd(f) THEN UNION {Nodes(f.and[i]) : i \in 1..Len(f.and)}
     ELSE IF IsOr(f) THEN UNION {Nodes(f.or[i]) : i \in 1..Len(f.or)}
     ELSE IF IsNot(f) THEN Nodes(f.not)
     ELSE {})

Rows == 1..Len(df.rows)

\* Row i is selected by the (successful) evaluation r.
Selects(r, i) == r.mask[i]

\* C1: an `and` node with a non-empty child list selects a row iff every
\* child's mask selects it, an `or` node iff at least one child's mask does:
\* for the request itself (the mask apply_filter returned) and for every node
\* nested in it, whenever the children evaluate to masks.
C1_AndOrPositionwise ==
    Filtered =>
        \A n \in Nodes(filter) :
            LET cs == IF IsAnd(n) THEN n.and ELSE IF IsOr(n) THEN n.or ELSE <<>>
                rs == [k \in 1..Len(cs) |-> apply_filter(df, cs[k])]
                r  == IF n = filter THEN result ELSE apply_filter(df, n)
            IN  (cs # <<>> /\ \A k \in 1..Len(cs) : ~IsExc(rs[k])) =>
                    /\ ~IsExc(r)
                    /\ Len(r.mask) = Len(df.rows)
                    /\ IsAnd(n) =>
                         \A i \in Rows :
                            Selects(r, i) <=> \A k \in 1..Len(cs) : Selects(rs[k], i)
                    /\ IsOr(n) =>
                         \A i \in Rows :
                            Selects(r, i) <=> \E k \in 1..Len(cs) : Selects(rs[k], i)

\* An `and` of two or more children, one of them itself an `or` node, whose mask
\* selects one row and not another.
C1_Witness ==
    /\ Filtered
    /\ IsAnd(filter)
    /\ Len(filter.and) >= 2
    /\ \E k \in 1..Len(filter.and) : IsOr(filter.and[k])
    /\ ~IsExc(result)
    /\ \E i, j \in Rows : Selects(result, i) /\ ~Selects(result, j)

\* C2 (as claimed): `and` of an empty child list selects every row, `or` of
\* an empty child list selects none, and neither raises.
C2_EmptyAndOr ==
    Filtered =>
        /\ filter = [and |-> <<>>] =>
              ~IsExc(result) /\ \A i \in Rows : Selects(result, i)
        /\ filter = [or |-> <<>>] =>
              ~IsExc(result) /\ \A i \in Rows : ~Selects(result, i)

\* C3: the evaluation of not(not(E)) equals the evaluation of E: the same
\* mask row for row, or the same exception.
C3_DoubleNegation ==
    (Filtered /\ IsNot(filter) /\ IsNot(filter.not)) =>
        result = apply_filter(df, filter.not.not)

\* not(not(E)) over a composite E whose mask selects one row and not another.
C3_Witness ==
    /\ Filtered
    /\ IsNot(filter) /\ IsNot(filter.not)
    /\ IsAnd(filter.not.not) \/ IsOr(filter.not.not)
    /\ ~IsExc(result)
    /\ \E i, j \in Rows : Selects(result, i) /\ ~Selects(result, j)

IsNull(col, cell) == IF ColKind(col) = "int" THEN cell = NaN ELSE cell.den = 0

IsPair(val) == ~IsNum(val) /\ Len(val.list) = 2

BetweenPair(f) == IsTriple(f) /\ f.operator = "between" /\ IsPair(f.value)

\* C4: between(col, [lo, hi]) evaluates as and([greater_than_equals(col, lo),
\* less_than_equals(col, hi)]): the same mask, or the same exception for an
\* unknown column; a row with a null cell is not selected; lo > hi selects
\* no row; on an integer column the selected rows are exactly those with
\* lo <= cell <= hi.
C4_BetweenIsGeAndLe ==
    (Filtered /\ BetweenPair(filter)) =>
        LET col == filter.column
            lo  == filter.value.list[1]
            hi  == filter.value.list[2]
            ge  == [column |-> col, operator |-> "greater_than_equals",
                    value |-> [num |-> lo]]
            le  == [column |-> col, operator |-> "less_than_equals",
                    value |-> [num |-> hi]]
        IN  /\ result = apply_filter(df, [and |-> <<ge, le>>])
            /\ ~IsExc(result) =>
                 \A i \in Rows :
                    LET cell == df.rows[i][col]
                    IN  /\ IsNull(col, cell) => ~Selects(result, i)
                        /\ lo > hi => ~Selects(result, i)
                        /\ ColKind(col) = "int" =>
                             (Selects(result, i) <=>
                                 (cell # NaN /\ lo <= cell /\ cell <= hi))

\* A between on amount that selects a row whose amount is the upper bound,
\* another whose amount is the lower bound, in a table with a null amount.
C4_Witness ==
    /\ Filtered
    /\ BetweenPair(filter)
    /\ filter.column = "amount"
    /\ filter.value.list[1] < filter.value.list[2]
    /\ ~IsExc(result)
    /\ \E i \in Rows : Selects(result, i) /\ df.rows[i].amount = filter.value.list[2]
    /\ \E i \in Rows : df.rows[i].amount = NaN /\ ~Selects(result, i)

\* The leaves of a filter object, left to right: the order in which
\* apply_filter reaches them.
RECURSIVE LeavesOf(_)
LeavesOf(f) ==
    IF IsAnd(f) THEN Flatten([i \in 1..Len(f.and) |-> LeavesOf(f.and[i])])
    ELSE IF IsOr(f) THEN Flatten([i \in 1..Len(f.or) |-> LeavesOf(f.or[i])])
    ELSE IF IsNot(f) THEN LeavesOf(f.not)
    ELSE <<f>>

KnownColumn(f) == f.column \in SeqToSet(df.columns)

\* A complete triple with an unknown column or an unsupported operator.
BadLeaf(f) == IsTriple(f) /\ (~KnownColumn(f) \/ f.operator \notin Operators)

\* A complete triple the evaluator has a mask for.
GoodLeaf(f) ==
    /\ IsTriple(f) /\ KnownColumn(f) /\ f.operator \in Operators
    /\ f.operator \in ScalarOperators => IsNum(f.value)
    /\ f.operator = "between" => (~IsNum(f.value) /\ Len(f.value.list) >= 2)
    /\ f.operator \in {"in", "not_in"} => ~IsNum(f.value)

\* The filter objects whose only defects are bad leaves: no empty child
\* list, no malformed node, no value of the wrong shape.
OnlyBadLeaves(f) ==
    \A n \in Nodes(f) :
        /\ IsAnd(n) => n.and # <<>>
        /\ IsOr(n) => n.or # <<>>
        /\ (~IsAnd(n) /\ ~IsOr(n) /\ ~IsNot(n)) => (BadLeaf(n) \/ GoodLeaf(n))

BadLeafDetail(f) ==
    IF ~KnownColumn(f) THEN "Unsupported column: '" \o f.column \o "'"
    ELSE "Unsupported operator: '" \o f.operator \o "' for column '" \o f.column \o "'"

\* C5: a leaf with an unknown column or an unsupported operator makes the
\* structured filter request fail with status 400, wherever the leaf sits in
\* the filter object (every other node being well formed): the detail names
\* the column, respectively the operator, of the first such leaf evaluation
\* reaches, and names the column when the leaf has both defects.
C5_BadLeafIs400 ==
    (Filtered /\ OnlyBadLeaves(filter)) =>
        LET ls  == LeavesOf(filter)
            bad == {k \in 1..Len(ls) : BadLeaf(ls[k])}
        IN  bad # {} =>
                LET first == CHOOSE k \in bad : \A j \in bad : k <= j
                IN  response = [status |-> 400, detail |-> BadLeafDetail(ls[first])]

\* An `or` whose first child selects rows and whose second child is a `not`
\* over a leaf with an unknown column: the request fails with 400.
C5_Witness ==
    /\ Filtered
    /\ IsOr(filter)
    /\ Len(filter.or) = 2
    /\ GoodLeaf(filter.or[1])
    /\ \E i \in Rows : Selects(apply_filter(df, filter.or[1]), i)
    /\ IsNot(filter.or[2])
    /\ IsTriple(filter.or[2].not) /\ ~KnownColumn(filter.or[2].not)
    /\ response.status = 400

\* None of the four shapes: no and / or / not key and no complete triple.
Malformed(f) == ~IsAnd(f) /\ ~IsOr(f) /\ ~IsNot(f) /\ ~IsTriple(f)

\* C6 (as claimed): a node that is none of the four shapes makes the
\* structured filter request fail with status 400.
C6_MalformedIs400 ==
    (Filtered /\ Malformed(filter)) => response.status = 400

\* C7 (as claimed): a between leaf on a column of the table whose value is
\* not a 2-element list is rejected with status 400.
C7_BetweenNeedsPair ==
    (Filtered /\ IsTriple(filter) /\ KnownColumn(filter)
        /\ filter.operator = "between" /\ ~IsPair(filter.value))
    => response.status = 400

NullRejecting ==
    {"equals", "greater_than", "greater_than_equals", "less_than", "less_than_equals"}

\* C8: equals, greater_than, greater_than_equals, less_than,
\* less_than_equals and between (with a pair) on a column of the table never
\* raise and never select a row whose cell in that column is null, whatever
\* the comparison value; in particular no row of an entity with at most one
\* counted transaction is selected by such a leaf on std_transaction_amount.
C8_NullCellsNotSelected ==
    (Filtered /\ IsTriple(filter) /\ KnownColumn(filter)
        /\ ((filter.operator \in NullRejecting /\ IsNum(filter.value))
            \/ BetweenPair(filter)))
    =>  /\ ~IsExc(result)
        /\ \A i \in Rows :
              /\ IsNull(filter.column, df.rows[i][filter.column]) => ~Selects(result, i)
              /\ (filter.column = "std_transaction_amount"
                    /\ df.rows[i].total_transactions <= 1) => ~Selects(result, i)

\* std_transaction_amount >= 0 on an enriched table of one transaction: the
\* standard deviation is null and the row is not selected.
C8_Witness ==
    /\ Filtered
    /\ IsTriple(filter)
    /\ filter.column = "std_transaction_amount"
    /\ filter.operator = "greater_than_equals"
    /\ filter.value = [num |-> 0]
    /\ id_col = "merchant_id"
    /\ Len(df.rows) = 1
    /\ df.rows[1].total_transactions = 1
    /\ ~IsExc(result)
    /\ ~Selects(result, 1)

----------------------------------------------------------------------------
(* Claims about the Attribute Aggregator. *)

Enriched == pc = "enriched"

TableRows == 1..Len(table.rows)

\* The rows of the input table in the group of row i, and those of them
\* with an amount.
GroupOf(i) == {j \in TableRows : table.rows[j][id_col] = table.rows[i][id_col]}

CountedOf(i) == {j \in GroupOf(i) : table.rows[j].amount # NaN}

\* The sum of g[x] over the x in S.
RECURSIVE SumOver(_, _)
SumOver(S, g) ==
    IF S = {} THEN 0
    ELSE LET x == CHOOSE y \in S : TRUE IN g[x] + SumOver(S \ {x}, g)

AggregateColumns == SeqToSet(df.columns) \ SeqToSet(RawColumns)

\* C9: add_computed_attributes returns as many rows as the input, in the
\* same order (the raw cells of row i are those of input row i); a row with a
\* non-null grouping key carries the count, sum, min, max, mean and sample
\* standard deviation of the amounts of its own group; a row with a null
\* grouping key carries null in every aggregate column.
C9_LeftJoinOfGroupAggregates ==
    Enriched =>
        /\ Len(df.rows) = Len(table.rows)
        /\ \A i \in TableRows :
              LET r   == df.rows[i]
                  A   == CountedOf(i)
                  n   == Cardinality(A)
                  amt == [j \in TableRows |-> table.rows[j].amount]
                  sq  == [j \in TableRows |-> amt[j] * amt[j]]
                  sum == SumOver(A, amt)
              IN  /\ \A c \in SeqToSet(RawColumns) : r[c] = table.rows[i][c]
                  /\ table.rows[i][id_col] # NaN =>
                        /\ r.total_transactions = n
                        /\ r.sum_transaction_amount = sum
                        /\ r.min_transaction_amount =
                              (IF A = {} THEN NaN
                               ELSE CHOOSE m \in {amt[j] : j \in A} :
                                        \A j \in A : m <= amt[j])
                        /\ r.max_transaction_amount =
                              (IF A = {} THEN NaN
                               ELSE CHOOSE m \in {amt[j] : j \in A} :
                                        \A j \in A : m >= amt[j])
                        /\ (r.avg_transaction_amount.den = 0) <=> (n = 0)
                        /\ r.avg_transaction_amount.num * n
                              = sum * r.avg_transaction_amount.den
                        /\ (r.std_transaction_amount.den = 0) <=> (n <= 1)
                        /\ r.std_transaction_amount.num * (n * (n - 1))
                              = (n * SumOver(A, sq) - sum * sum)
                                    * r.std_transaction_amount.den
                  /\ table.rows[i][id_col] = NaN =>
                        \A c \in AggregateColumns : IsNull(c, r[c])

\* Grouping on branch_admin_id a table with a row without a branch admin and
\* a row with one.
C9_Witness ==
    /\ Enriched
    /\ id_col = "branch_admin_id"
    /\ Len(df.rows) = 2
    /\ \E i, j \in TableRows :
          /\ table.rows[i].branch_admin_id = NaN
          /\ df.rows[i].total_transactions = NaN
          /\ table.rows[j].branch_admin_id # NaN
          /\ df.rows[j].total_transactions = 1

\* The sum of total_transactions over the distinct groups of the enriched
\* table: one term per non-null grouping key.
SumOverGroups ==
    LET keys == {df.rows[i][id_col] : i \in Rows} \ {NaN}
        total == [k \in keys |->
                    LET i == CHOOSE j \in Rows : df.rows[j][id_col] = k
                    IN  df.rows[i].total_transactions]
    IN  SumOver(keys, total)

\* C10 (as claimed): the sum of total_transactions over the distinct groups
\* equals the number of rows of the input table, null grouping keys and
\* null amounts included.
C10_SumIsRowCount ==
    Enriched => SumOverGroups = Len(table.rows)

\* C10 (amended): the sum of total_transactions over the distinct groups
\* equals the number of rows of the input table whose grouping key and
\* amount are both non-null.
C10_SumIsCountedRows ==
    Enriched =>
        SumOverGroups =
            Cardinality({i \in TableRows :
                            table.rows[i][id_col] # NaN /\ table.rows[i].amount # NaN})

\* Grouping on branch_admin_id a table with a row without a branch admin and
\* a row with a branch admin and no amount: the sum falls short of the rows.
C10_Witness ==
    /\ Enriched
    /\ id_col = "branch_admin_id"
    /\ \E i, j \in TableRows :
          /\ table.rows[i].branch_admin_id = NaN
          /\ table.rows[j].branch_admin_id # NaN
          /\ table.rows[j].amount = NaN
    /\ SumOverGroups < Len(table.rows)

\* The unique-count columns of the enriched table.
UniqueCountColumns ==
    SeqToSet(df.columns)
        \cap {"unique_customers", "unique_merchants", "unique_branch_admins",
              "unique_terminals"}

\* The distinct non-null cells of column src over the input rows of the
\* group of row i.
DistinctOf(i, src) == {table.rows[j][src] : j \in GroupOf(i)} \ {NaN}

\* C11: the unique-count columns added depend only on the grouping column:
\* merchant_id adds unique_customers, unique_branch_admins and
\* unique_terminals; branch_admin_id adds unique_customers and
\* unique_terminals; customer_id adds no unique_customers (and no other
\* unique count); any other grouping column adds unique_customers only.  On a
\* row with a non-null grouping key each added count is the number of
\* distinct non-null values of its source column within the row's group.
C11_UniqueCountsByGroupingColumn ==
    Enriched =>
        /\ UniqueCountColumns =
              (IF id_col = "merchant_id"
               THEN {"unique_customers", "unique_branch_admins", "unique_terminals"}
               ELSE IF id_col = "branch_admin_id"
               THEN {"unique_customers", "unique_terminals"}
               ELSE IF id_col = "customer_id" THEN {}
               ELSE {"unique_customers"})
        /\ \A i \in TableRows :
              table.rows[i][id_col] # NaN =>
                  LET r == df.rows[i]
                      U == UniqueCountColumns
                  IN  /\ "unique_customers" \in U =>
                          r.unique_customers = Cardinality(DistinctOf(i, "customer_id"))
                      /\ "unique_branch_admins" \in U =>
                          r.unique_branch_admins
                              = Cardinality(DistinctOf(i, "branch_admin_id"))
                      /\ "unique_terminals" \in U =>
                          r.unique_terminals = Cardinality(DistinctOf(i, "terminal_id"))

\* Grouping on merchant_id a table of two customers, one row with a branch
\* admin and one without: two unique customers, one unique branch admin.
C11_Witness ==
    /\ Enriched
    /\ id_col = "merchant_id"
    /\ \E i, j \in TableRows :
          /\ table.rows[i].branch_admin_id = NaN
          /\ table.rows[j].branch_admin_id # NaN
          /\ table.rows[i].customer_id # table.rows[j].customer_id
          /\ df.rows[i].unique_customers = 2
          /\ df.rows[i].unique_branch_admins = 1

----------------------------------------------------------------------------
(* The structured-filter entry points:                                     *)
(*   POST /agents/{agent_id}/filter  routers/agents.py 550-589             *)
(*   POST /merchants/filter          routers/merchants.py 356-375          *)
(*   POST /customers/filter          routers/customers.py 96-129           *)
(* Each handler receives the DataFrame object of core/data.py (get_df)     *)
(* itself, not a copy.  A date cell is [text |-> d] as pd.read_csv loads   *)
(* it and [ts |-> d] once parsed: d is the day of January 2024.            *)

DatedColumns == RawColumns \o <<"date">>

MkDated(rows) ==
    [columns |-> DatedColumns,
     rows    |-> [i \in 1..Len(rows) |-> ("transaction_id" :> i) @@ rows[i]]]

\* The transactions of two agents and two merchants, on two days.
RouteRows ==
    [customer_id : {1}, merchant_id : {1, 2}, terminal_id : {1},
     branch_admin_id : {1}, agent_id : {1, 2}, amount : {1},
     date : {[text |-> 1], [text |-> 2]}]

RouteTables == {MkDated(rows) : rows \in SeqsOf(RouteRows, 1, MaxTxns)}

HTTPException(status_code, detail) ==
    [exc |-> "HTTPException", status |-> status_code, msg |-> detail]

\* pd.to_datetime of one cell: text is parsed, a timestamp is kept.
ToDatetime(c) == IF "text" \in DOMAIN c THEN [ts |-> c.text] ELSE c

\* df["date"] = pd.to_datetime(df["date"]): the column of d is replaced.
DateToDatetime(d) ==
    [d EXCEPT !.rows = [i \in 1..Len(d.rows) |->
                            [d.rows[i] EXCEPT !["date"] = ToDatetime(@)]]]

\* _prepare_date_columns: on a copy, the date parsed and its year, month, day
\* and ISO week added (every day of the model is in week 1 of January 2024).
prepare_date_columns(d) ==
    LET c == DateToDatetime(d)
    IN  [columns |-> c.columns \o <<"year", "month", "day", "week">>,
         rows    |-> [i \in 1..Len(c.rows) |->
                         c.rows[i] @@ [year |-> 2024, month |-> 1,
                                       day |-> c.rows[i].date.ts, week |-> 1]]]

\* A query parameter left out (None).
None == NaN

\* No date parameter supplied.
NoDates ==
    [year |-> None, month |-> None, week |-> None, day |-> None,
     range_days |-> None, start_date |-> None, end_date |-> None]

\* _apply_date_filters with the date parameters q; `today` is
\* pd.Timestamp.today().normalize().  The range of start_date and end_date
\* is applied when both are given, else the window of range_days when it is
\* given and not 0; then each of year, month, week and day that is given.
apply_date_filters(d, q, today) ==
    LET p == prepare_date_columns(d)
        InRange(r) ==
            IF q.start_date # None /\ q.end_date # None
            THEN r.date.ts >= q.start_date /\ r.date.ts <= q.end_date
            ELSE IF q.range_days # None /\ q.range_days # 0
            THEN r.date.ts >= today - q.range_days /\ r.date.ts <= today
            ELSE TRUE
        Keep(r) ==
            /\ InRange(r)
            /\ q.year # None => r.year = q.year
            /\ q.month # None => r.month = q.month
            /\ q.week # None => r.week = q.week
            /\ q.day # None => r.day = q.day
    IN  [p EXCEPT !.rows = SelectSeq(p.rows, Keep)]

\* entity_id_col.replace('_id', '')
EntityName(entity_id_col) ==
    IF entity_id_col = "agent_id" THEN "agent"
    ELSE IF entity_id_col = "merchant_id" THEN "merchant"
    ELSE IF entity_id_col = "customer_id" THEN "customer"
    ELSE IF entity_id_col = "terminal_id" THEN "terminal"
    ELSE "branch_admin"

\* filter_entity_data: `arg` is the caller's DataFrame object after the call
\* (line 24 assigns its date column in place), `ret` the new DataFrame
\* returned or the HTTPException raised.
filter_entity_data(d, entity_id_col, entity_id, q, today) ==
    LET dated  == DateToDatetime(d)
        scoped == [dated EXCEPT
                      !.rows = SelectSeq(dated.rows,
                                         LAMBDA r : r[entity_id_col] = entity_id)]
        final  == apply_date_filters(scoped, q, today)
    IN  [arg |-> dated,
         ret |-> IF scoped.rows = <<>>
                 THEN HTTPException(404, "No data found for this "
                                             \o EntityName(entity_id_col))
                 ELSE IF final.rows = <<>>
                 THEN HTTPException(404, "No data after filtering")
                 ELSE final]

\* filter_transactions: df[mask], or what apply_filter raised.
filter_transactions(d, f) ==
    LET r == apply_filter(d, f)
    IN  IF IsExc(r) THEN r ELSE [d EXCEPT !.rows = SelectRows(d.rows, r.mask)]

merchant_cols ==
    <<"merchant_id", "avg_transaction_amount", "total_transactions",
      "unique_customers">>

customer_cols == <<"customer_id", "avg_transaction_amount", "total_transactions">>

\* The body of filter_customers (customers.py 114-129).
filter_customers(d, f) ==
    LET filtered_df == filter_transactions(d, f)
    IN  IF IsExc(filtered_df) THEN
            IF filtered_df.exc = "ValueError"
            THEN [status |-> 400, detail |-> filtered_df.msg]
            ELSE [status |-> 500, detail |-> filtered_df.exc]
        ELSE IF filtered_df.rows = <<>> THEN [status |-> 200, body |-> <<>>]
        ELSE LET available_cols ==
                     SelectSeq(customer_cols,
                               LAMBDA c : c \in SeqToSet(filtered_df.columns))
             IN  [status |-> 200,
                  body   |-> ToRecords(DropDuplicates(filtered_df.rows, "customer_id"),
                                       available_cols)]

AgentIds == {1, 2}

Days == {None, 1, 2}

\* The filter objects of the requests: a leaf on an aggregate column, on a
\* raw column, on an unknown column, and a conjunction of the first two.
RouteFilters ==
    {[column |-> "total_transactions", operator |-> "greater_than", value |-> [num |-> 1]],
     [column |-> "total_transactions", operator |-> "equals", value |-> [num |-> 1]],
     [column |-> "merchant_id", operator |-> "equals", value |-> [num |-> 1]],
     [column |-> "bogus", operator |-> "equals", value |-> [num |-> 1]],
     [and |-> << [column |-> "total_transactions", operator |-> "greater_than_equals",
                  value |-> [num |-> 1]],
                 [column |-> "merchant_id", operator |-> "equals",
                  value |-> [num |-> 2]] >>]}

InitRoutes ==
    /\ table \in RouteTables
    /\ shared_df = table
    /\ df = table
    /\ id_col = ""
    /\ filter = NoFilter
    /\ result = NoResult
    /\ response = NoResponse
    /\ request = NoRequest
    /\ projection = <<>>
    /\ NoCalls
    /\ NoUploads
    /\ pc = "loaded"

\* filter_agent_merchants, step 1 (agents.py 578-581).
FilterEntityData ==
    /\ pc = "loaded"
    /\ \E agent_id \in AgentIds, day \in Days :
          LET r == filter_entity_data(shared_df, "agent_id", agent_id,
                                     [NoDates EXCEPT !.day = day], None)
          IN  /\ request' = [route |-> "agents", agent_id |-> agent_id, day |-> day]
              /\ shared_df' = r.arg
              /\ IF IsExc(r.ret)
                 THEN /\ response' = [status |-> r.ret.status, detail |-> r.ret.msg]
                      /\ df' = r.arg
                      /\ pc' = "failed"
                 ELSE /\ response' = response
                      /\ df' = r.ret
                      /\ pc' = "scoped"
    /\ UNCHANGED <<table, id_col, filter, result, projection>>
    /\ UNCHANGED nl_vars
    /\ UNCHANGED data_vars

\* filter_agent_merchants, step 2 (agents.py 584).
EnrichAgentMerchants ==
    /\ pc = "scoped"
    /\ df' = add_computed_attributes(df, "merchant_id")
    /\ id_col' = "merchant_id"
    /\ pc' = "enriched"
    /\ UNCHANGED <<table, shared_df, request, filter, result, response, projection>>
    /\ UNCHANGED nl_vars
    /\ UNCHANGED data_vars

\* filter_agent_merchants, step 3 (agents.py 586-589).
FilterAgentMerchants ==
    /\ pc = "enriched"
    /\ \E f \in RouteFilters :
          /\ filter' = f
          /\ result' = apply_filter(df, f)
          /\ projection' = <<"merchant_id">> \o attribute_cols_base
          /\ response' = Respond(df, result', "merchant_id", projection')
    /\ pc' = "filtered"
    /\ UNCHANGED <<table, shared_df, request, df, id_col>>
    /\ UNCHANGED nl_vars
    /\ UNCHANGED data_vars

\* filter_merchants (merchants.py 356-375): the DataFrame of get_df goes to
\* apply_structured_filter as it is.
FilterMerchants ==
    /\ pc = "loaded"
    /\ \E f \in RouteFilters :
          /\ filter' = f
          /\ result' = apply_filter(df, f)
          /\ response' = Respond(df, result', "merchant_id", merchant_cols)
    /\ request' = [route |-> "merchants"]
    /\ id_col' = "merchant_id"
    /\ projection' = merchant_cols
    /\ pc' = "filtered"
    /\ UNCHANGED <<table, shared_df, df>>
    /\ UNCHANGED nl_vars
    /\ UNCHANGED data_vars

\* filter_customers (customers.py 96-129): the DataFrame of get_df goes to
\* filter_transactions as it is.
FilterCustomers ==
    /\ pc = "loaded"
    /\ \E f \in RouteFilters :
          /\ filter' = f
          /\ result' = apply_filter(df, f)
          /\ response' = filter_customers(df, f)
    /\ request' = [route |-> "customers"]
    /\ id_col' = "customer_id"
    /\ projection' = customer_cols
    /\ pc' = "filtered"
    /\ UNCHANGED <<table, shared_df, df>>
    /\ UNCHANGED nl_vars
    /\ UNCHANGED data_vars

NextRoutes ==
    \/ FilterEntityData
    \/ EnrichAgentMerchants
    \/ FilterAgentMerchants
    \/ FilterMerchants
    \/ FilterCustomers

SpecRoutes == InitRoutes /\ [][NextRoutes]_vars

\* C12 (as claimed): no step of a filter request modifies the DataFrame
\* obtained from get_df: after entity/date scoping, enrichment, evaluation
\* and apply_structured_filter its rows, columns and cell values are those
\* that were loaded.
C12_SharedTableUnchanged ==
    shared_df = table

----------------------------------------------------------------------------
(* apply_structured_filter on its own (filter_helpers.py 9-48): applied to  *)
(* a table of several merchants and customers, raw or enriched, with each  *)
(* id column and with the projections of its callers and others.           *)

ServiceRows ==
    [customer_id : {1, 2}, merchant_id : {1, 2}, terminal_id : {1},
     branch_admin_id : {1}, agent_id : {1}, amount : {0, 1}]

ServiceTables == {MkTable(rows) : rows \in SeqsOf(ServiceRows, 1, MaxTxns)}

ServiceIdColumns == {"merchant_id", "customer_id"}

\* attribute_cols: those of the callers (agents.py 586 and 644, merchants.py
\* 374) and two that name raw and unknown columns; id_col is always among
\* them.
Projections(by) ==
    {<<by>> \o attribute_cols_base,
     <<by, "avg_transaction_amount", "total_transactions", "unique_customers">>,
     <<by, "amount">>,
     <<"amount", "bogus", by, "total_transactions", "transaction_id">>}

\* filter_structure: leaves that select some rows, a negation that selects
\* none, a leaf on an aggregate column and one on an unknown column.
ServiceFilters ==
    {[column |-> "amount", operator |-> "greater_than_equals", value |-> [num |-> 0]],
     [column |-> "amount", operator |-> "equals", value |-> [num |-> 1]],
     [column |-> "merchant_id", operator |-> "not_equals", value |-> [num |-> 2]],
     [not |-> [column |-> "amount", operator |-> "greater_than_equals",
               value |-> [num |-> 0]]],
     [column |-> "total_transactions", operator |-> "greater_than", value |-> [num |-> 1]],
     [column |-> "bogus", operator |-> "equals", value |-> [num |-> 1]]}

InitService ==
    /\ table \in ServiceTables
    /\ shared_df = table
    /\ df = table
    /\ id_col = ""
    /\ filter = NoFilter
    /\ result = NoResult
    /\ response = NoResponse
    /\ request = NoRequest
    /\ projection = <<>>
    /\ NoCalls
    /\ NoUploads
    /\ pc = "loaded"

\* df = add_computed_attributes(df, id_col), by a caller that enriches.
ServiceEnrich ==
    /\ pc = "loaded"
    /\ \E by \in ServiceIdColumns :
          /\ df' = add_computed_attributes(df, by)
          /\ id_col' = by
    /\ pc' = "enriched"
    /\ UNCHANGED <<table, shared_df, request, filter, result, response, projection>>
    /\ UNCHANGED nl_vars
    /\ UNCHANGED data_vars

\* apply_structured_filter(df, filter_structure, id_col, attribute_cols);
\* `result` keeps what its call of apply_filter (line 32) gave.
ApplyStructuredFilter ==
    /\ pc \in {"loaded", "enriched"}
    /\ \E by \in (IF id_col = "" THEN ServiceIdColumns ELSE {id_col}) :
          \E f \in ServiceFilters, cols \in Projections(by) :
              /\ filter' = f
              /\ id_col' = by
              /\ projection' = cols
              /\ result' = apply_filter(df, f)
              /\ response' = Respond(df, result', by, cols)
    /\ pc' = "filtered"
    /\ UNCHANGED <<table, shared_df, request, df>>
    /\ UNCHANGED nl_vars
    /\ UNCHANGED data_vars

NextService == ServiceEnrich \/ ApplyStructuredFilter

SpecService == InitService /\ [][NextService]_vars

\* The rows the mask selects, and the ids among them.
Selected == {i \in Rows : Selects(result, i)}

SelectedIds == {df.rows[i][id_col] : i \in Selected}

\* The first selected row with id x, in row order.
FirstSelected(x) ==
    CHOOSE i \in Selected :
        /\ df.rows[i][id_col] = x
        /\ \A j \in Selected : df.rows[j][id_col] = x => i <= j

\* The columns of the projection that the table has, in the requested order.
AvailableColumns == SelectSeq(projection, LAMBDA c : c \in SeqToSet(df.columns))

\* The cell of column c in an entity of the response.
Field(entity, c) ==
    LET k == CHOOSE j \in 1..Len(entity) : entity[j][1] = c IN entity[k][2]

\* C13: apply_structured_filter returns exactly one entity per distinct
\* id_col value among the rows the mask selects (K distinct selected ids give
\* K entities, however many rows share an id), and the entity of an id
\* carries the cells of the first selected row with that id, in row order.
C13_OneEntityPerIdFirstRow ==
    (Filtered /\ ~IsExc(result)) =>
        /\ response.status = 200
        /\ Len(response.body) = Cardinality(SelectedIds)
        /\ \A x \in SelectedIds :
              LET ks == {k \in 1..Len(response.body) :
                            Field(response.body[k], id_col) = x}
              IN  /\ Cardinality(ks) = 1
                  /\ \A k \in ks :
                        \A c \in SeqToSet(AvailableColumns) :
                            Field(response.body[k], c) = df.rows[FirstSelected(x)][c]

\* Three selected rows of two ids; the two rows of one id differ in amount,
\* which the projection returns: the first row's amount is the one returned.
C13_Witness ==
    /\ Filtered
    /\ ~IsExc(result)
    /\ Cardinality(Selected) = 3
    /\ Len(response.body) = 2
    /\ "amount" \in SeqToSet(projection)
    /\ \E i, j \in Selected :
          /\ i < j
          /\ df.rows[i][id_col] = df.rows[j][id_col]
          /\ df.rows[i].amount # df.rows[j].amount
          /\ \E k \in 1..Len(response.body) :
                /\ Field(response.body[k], id_col) = df.rows[i][id_col]
                /\ Field(response.body[k], "amount") = df.rows[i].amount

\* The columns of an entity of the response, in order.
ColumnsOf(entity) == [j \in 1..Len(entity) |-> entity[j][1]]

\* C14: every entity apply_structured_filter returns has exactly the
\* requested columns that the table has, in the requested order; a requested
\* column the table lacks is left out and never makes a request fail whose
\* filter evaluates to a mask.
C14_ProjectionIsAvailableColumns ==
    (Filtered /\ ~IsExc(result)) =>
        /\ response.status = 200
        /\ \A k \in 1..Len(response.body) :
              ColumnsOf(response.body[k]) = AvailableColumns

\* A projection that names an unknown column and an aggregate column on a
\* raw table, between columns the table has: the entities carry the latter,
\* in the requested order.
C14_Witness ==
    /\ Filtered
    /\ ~IsExc(result)
    /\ projection = <<"amount", "bogus", id_col, "total_transactions", "transaction_id">>
    /\ "total_transactions" \notin SeqToSet(df.columns)
    /\ Len(response.body) = 2
    /\ ColumnsOf(response.body[1]) = <<"amount", id_col, "transaction_id">>

\* C15: when the filter evaluates to a mask that selects no row,
\* apply_structured_filter returns the empty list with status 200.
C15_EmptySelectionIsSuccess ==
    (Filtered /\ ~IsExc(result) /\ Selected = {}) =>
        response = [status |-> 200, body |-> <<>>]

\* A filter that evaluates without error and selects none of three rows.
C15_Witness ==
    /\ Filtered
    /\ ~IsExc(result)
    /\ Len(df.rows) = 3
    /\ Selected = {}
    /\ response.status = 200
    /\ response.body = <<>>

\* The ids of the request's rows whose group has n counted transactions with
\* Cmp("int", n, v) among `signs`.
IdsWithCount(signs, v) ==
    {x \in {df.rows[i][id_col] : i \in Rows} :
        Cmp("int",
            Cardinality({i \in Rows : df.rows[i][id_col] = x /\ df.rows[i].amount # NaN}),
            v) \in signs}

\* C16 (as claimed): at every structured-filter entry point a leaf on the
\* aggregate column total_transactions succeeds, and the entities returned
\* are exactly the ids whose number of transactions satisfies the leaf.
C16_AggregateLeafSucceeds ==
    (Filtered /\ request.route \in {"agents", "merchants", "customers"}
        /\ IsTriple(filter) /\ filter.column = "total_transactions")
    =>  /\ response.status = 200
        /\ {Field(response.body[k], id_col) : k \in 1..Len(response.body)}
              = IdsWithCount(IF filter.operator = "greater_than" THEN {"gt"} ELSE {"eq"},
                             filter.value.num)

----------------------------------------------------------------------------
(* The natural-language filter request: nl_filter_agent_data (routers/      *)
(* agents.py 592-649) and apply_nl_filter (filter_helpers.py 50-88).  The  *)
(* handler is a coroutine: it creates the two tasks, suspends at           *)
(* `await asyncio.gather(...)`, and runs to its end once resumed.  A task  *)
(* runs only while the handler is suspended or has ended.  `steps` lists   *)
(* the calls made, in order.                                               *)

\* One agent's transactions at one or two merchants.
NLRows ==
    [customer_id : {1}, merchant_id : {1, 2}, terminal_id : {1},
     branch_admin_id : {1}, agent_id : {1}, amount : {1},
     date : {[text |-> 1]}]

NLTables == {MkDated(rows) : rows \in SeqsOf(NLRows, 1, MaxRows)}

\* What the grouping-column model may return: a column of the menu
\* (agents.py 618-623), null, or a name that is no column.
GroupByOutputs == GroupingColumns \cup {NullColumn, "bogus"}

\* None where a filter object is expected (a JSON null filter_object).
JsonNull == [null |-> TRUE]

\* `not filter_structure`: None and the empty dict are falsy.
Falsy(f) == f = JsonNull \/ f = NoFilter

\* What the filter-extraction model may return as filter_object.
ExtractedFilters ==
    {JsonNull, NoFilter,
     [column |-> "total_transactions", operator |-> "greater_than_equals",
      value |-> [num |-> 1]],
     [column |-> "merchant_id", operator |-> "equals", value |-> [num |-> 2]],
     [column |-> "bogus", operator |-> "equals", value |-> [num |-> 1]],
     [column |-> "amount", operator |-> "between", value |-> [num |-> 1]]}

\* The exceptions a model call may raise: a provider error, or an output
\* parsing error (a ValueError).
ModelErrors == {Raise("APIError", "model call failed"),
                Raise("ValueError", "Failed to parse model output")}

Pending == [state |-> "pending"]

Done(r) == [state |-> "done", result |-> r]

Failed(e) == [state |-> "failed", exc |-> e]

\* The handler is not running: it waits in gather, or it has ended.
Suspended == pc \in {"awaiting", "failed"}

\* str(e) of an HTTPException: "<status_code>: <detail>".
StrHTTPException(status, detail) ==
    (IF status = 400 THEN "400" ELSE IF status = 404 THEN "404" ELSE "500")
        \o ": " \o detail

\* The except clauses of apply_nl_filter (lines 85-88) on an exception e
\* raised in its try block: a ValueError becomes 400 with str(e), anything
\* else -- an HTTPException raised at line 80 or by apply_structured_filter
\* included -- becomes 500 with "Error processing query: " + str(e).
NLExcept(e) ==
    IF e.exc = "ValueError" THEN [status |-> 400, detail |-> e.msg]
    ELSE [status |-> 500, detail |-> "Error processing query: " \o e.msg]

\* apply_nl_filter, line 83 and the except clauses around it, given what
\* apply_filter gave inside apply_structured_filter.
NLRespond(d, r, by, cols) ==
    LET inner == Respond(d, r, by, cols)
    IN  IF inner.status = 200 THEN inner
        ELSE IF inner.status = 400
        THEN NLExcept(HTTPException(400, StrHTTPException(400, inner.detail)))
        ELSE NLExcept(Raise(inner.detail, inner.detail))

InitNL ==
    /\ table \in NLTables
    /\ shared_df = table
    /\ df = table
    /\ id_col = ""
    /\ filter = NoFilter
    /\ result = NoResult
    /\ response = NoResponse
    /\ request = NoRequest
    /\ projection = <<>>
    /\ NoCalls
    /\ NoUploads
    /\ pc = "loaded"

\* df, _ = filter_entity_data(df, "agent_id", agent_id, ...)  (613-616)
NLFilterEntityData ==
    /\ pc = "loaded"
    /\ \E agent_id \in AgentIds :
          LET r == filter_entity_data(shared_df, "agent_id", agent_id, NoDates, None)
          IN  /\ request' = [route |-> "nl-filter", agent_id |-> agent_id, day |-> None]
              /\ shared_df' = r.arg
              /\ IF IsExc(r.ret)
                 THEN /\ response' = [status |-> r.ret.status, detail |-> r.ret.msg]
                      /\ df' = r.arg
                      /\ pc' = "failed"
                 ELSE /\ response' = response
                      /\ df' = r.ret
                      /\ pc' = "scoped"
    /\ UNCHANGED <<table, id_col, filter, result, projection>>
    /\ UNCHANGED nl_vars
    /\ UNCHANGED data_vars

\* intent_task = asyncio.create_task(intent_classification_chain.ainvoke(..))
CreateIntentTask ==
    /\ pc = "scoped"
    /\ intent_task' = Pending
    /\ steps' = Append(steps, "create intent_task")
    /\ pc' = "intent_created"
    /\ UNCHANGED <<table, df, id_col, filter, result, response, route_vars, data_vars,
                   group_by_task, intent_result, group_by_result, filter_result>>

\* group_by_task = asyncio.create_task(group_by_extraction_chain.ainvoke(..))
CreateGroupByTask ==
    /\ pc = "intent_created"
    /\ group_by_task' = Pending
    /\ steps' = Append(steps, "create group_by_task")
    /\ pc' = "tasks_created"
    /\ UNCHANGED <<table, df, id_col, filter, result, response, route_vars, data_vars,
                   intent_task, intent_result, group_by_result, filter_result>>

\* await asyncio.gather(intent_task, group_by_task): the handler suspends.
AwaitGather ==
    /\ pc = "tasks_created"
    /\ steps' = Append(steps, "await gather")
    /\ pc' = "awaiting"
    /\ UNCHANGED <<table, df, id_col, filter, result, response, route_vars, data_vars,
                   intent_task, group_by_task, intent_result, group_by_result,
                   filter_result>>

\* The intent-classification call returns {filter_intent: bool}.
IntentCompletes ==
    /\ Suspended
    /\ intent_task = Pending
    /\ \E b \in BOOLEAN : intent_task' = Done([filter_intent |-> b])
    /\ steps' = Append(steps, "intent_task done")
    /\ UNCHANGED <<table, df, id_col, filter, result, response, pc, route_vars, data_vars,
                   group_by_task, intent_result, group_by_result, filter_result>>

\* The intent-classification call raises.
IntentFails ==
    /\ Suspended
    /\ intent_task = Pending
    /\ \E e \in ModelErrors : intent_task' = Failed(e)
    /\ steps' = Append(steps, "intent_task failed")
    /\ UNCHANGED <<table, df, id_col, filter, result, response, pc, route_vars, data_vars,
                   group_by_task, intent_result, group_by_result, filter_result>>

\* The grouping-column call returns {group_by_column: string | null}.
GroupByCompletes ==
    /\ Suspended
    /\ group_by_task = Pending
    /\ \E c \in GroupByOutputs : group_by_task' = Done([group_by_column |-> c])
    /\ steps' = Append(steps, "group_by_task done")
    /\ UNCHANGED <<table, df, id_col, filter, result, response, pc, route_vars, data_vars,
                   intent_task, intent_result, group_by_result, filter_result>>

\* The grouping-column call raises.
GroupByFails ==
    /\ Suspended
    /\ group_by_task = Pending
    /\ \E e \in ModelErrors : group_by_task' = Failed(e)
    /\ steps' = Append(steps, "group_by_task failed")
    /\ UNCHANGED <<table, df, id_col, filter, result, response, pc, route_vars, data_vars,
                   intent_task, intent_result, group_by_result, filter_result>>

\* Mutant of GatherReturns: the handler resumes as soon as the grouping
\* column is known, taking the query for a filter request while the intent
\* call is still running.
GatherReturns_group_by_only ==
    /\ pc = "awaiting"
    /\ group_by_task.state = "done"
    /\ intent_task.state \in {"done", "pending"}
    /\ intent_result' = (IF intent_task.state = "done" THEN intent_task.result
                         ELSE [filter_intent |-> TRUE])
    /\ group_by_result' = group_by_task.result
    /\ steps' = Append(steps, "gather returned")
    /\ pc' = "joined"
    /\ UNCHANGED <<table, df, id_col, filter, result, response, route_vars, data_vars,
                   intent_task, group_by_task, filter_result>>

\* gather returns the two results once both tasks are done (line 634).
GatherReturns ==
    /\ pc = "awaiting"
    /\ intent_task.state = "done"
    /\ group_by_task.state = "done"
    /\ intent_result' = intent_task.result
    /\ group_by_result' = group_by_task.result
    /\ steps' = Append(steps, "gather returned")
    /\ pc' = "joined"
    /\ UNCHANGED <<table, df, id_col, filter, result, response, route_vars, data_vars,
                   intent_task, group_by_task, filter_result>>

\* Mutant of GatherRaises: a failed model call degraded to an empty result.
GatherRaises_swallow ==
    /\ pc = "awaiting"
    /\ \E t \in {intent_task, group_by_task} : t.state = "failed"
    /\ response' = [status |-> 200, body |-> <<>>]
    /\ steps' = Append(steps, "gather raised")
    /\ pc' = "failed"
    /\ UNCHANGED <<table, df, id_col, filter, result, route_vars, data_vars,
                   intent_task, group_by_task, intent_result, group_by_result,
                   filter_result>>

\* gather raises the exception of a failed task (return_exceptions=False);
\* the handler does not catch it and the request ends with status 500.  The
\* other task is not cancelled.
GatherRaises ==
    /\ pc = "awaiting"
    /\ \E t \in {intent_task, group_by_task} :
          /\ t.state = "failed"
          /\ response' = [status |-> 500, detail |-> t.exc.exc]
    /\ steps' = Append(steps, "gather raised")
    /\ pc' = "failed"
    /\ UNCHANGED <<table, df, id_col, filter, result, route_vars, data_vars,
                   intent_task, group_by_task, intent_result, group_by_result,
                   filter_result>>

\* Mutant of EnrichNL: a grouping column the table does not have is
\* skipped, the table is left as it is and the handler goes on.
EnrichNL_fallback ==
    /\ pc = "joined"
    /\ LET group_by_column == group_by_result.group_by_column
           r == add_computed_attributes(df, group_by_column)
       IN  /\ df' = IF IsExc(r) THEN df ELSE r
           /\ id_col' = group_by_column
           /\ pc' = "enriched"
           /\ response' = response
    /\ steps' = Append(steps, "add_computed_attributes")
    /\ UNCHANGED <<table, filter, result, route_vars, data_vars,
                   intent_task, group_by_task, intent_result, group_by_result,
                   filter_result>>

\* group_by_column = group_by_result["group_by_column"];
\* df = add_computed_attributes(df, group_by_column)  (lines 638-640)
EnrichNL ==
    /\ pc = "joined"
    /\ LET group_by_column == group_by_result.group_by_column
           r == add_computed_attributes(df, group_by_column)
       IN  IF IsExc(r)
           THEN /\ response' = [status |-> 500, detail |-> r.exc]
                /\ pc' = "failed"
                /\ UNCHANGED <<df, id_col>>
           ELSE /\ df' = r
                /\ id_col' = group_by_column
                /\ pc' = "enriched"
                /\ response' = response
    /\ steps' = Append(steps, "add_computed_attributes")
    /\ UNCHANGED <<table, filter, result, route_vars, data_vars,
                   intent_task, group_by_task, intent_result, group_by_result,
                   filter_result>>

\* Mutant of IntentCheck: the intent result is not looked at.
IntentCheck_ignored ==
    /\ pc = "enriched"
    /\ projection' = <<id_col>> \o attribute_cols_base
    /\ pc' = "intent_ok"
    /\ UNCHANGED <<table, df, id_col, filter, result, response, shared_df, request>>
    /\ UNCHANGED nl_vars
    /\ UNCHANGED data_vars

\* attribute_cols = [group_by_column] + attribute_cols_base;
\* if not intent_result["filter_intent"]: raise HTTPException(400, ...)
IntentCheck ==
    /\ pc = "enriched"
    /\ projection' = <<id_col>> \o attribute_cols_base
    /\ IF ~intent_result.filter_intent
       THEN /\ response' = [status |-> 400,
                            detail |-> "Could not determine filtering criteria from query"]
            /\ pc' = "failed"
       ELSE /\ response' = response
            /\ pc' = "intent_ok"
    /\ UNCHANGED <<table, df, id_col, filter, result, shared_df, request>>
    /\ UNCHANGED nl_vars
    /\ UNCHANGED data_vars

\* apply_nl_filter: filter_extraction_chain.invoke(...)  (lines 72-75)
IssueExtraction ==
    /\ pc = "intent_ok"
    /\ filter_result' = Pending
    /\ steps' = Append(steps, "filter_extraction_chain.invoke")
    /\ pc' = "extracting"
    /\ UNCHANGED <<table, df, id_col, filter, result, response, route_vars, data_vars,
                   intent_task, group_by_task, intent_result, group_by_result>>

\* The extraction call returns; a falsy filter_object raises the
\* HTTPException of line 80, inside the try block.
ExtractionReturns ==
    /\ pc = "extracting"
    /\ \E fo \in ExtractedFilters :
          /\ filter_result' = Done([filter_object |-> fo])
          /\ IF Falsy(fo)
             THEN /\ response' =
                        NLExcept(HTTPException(400,
                            StrHTTPException(400,
                                "Could not extract filtering criteria from query")))
                  /\ pc' = "failed"
             ELSE /\ response' = response
                  /\ pc' = "extracted"
    /\ steps' = Append(steps, "filter_extraction returned")
    /\ UNCHANGED <<table, df, id_col, filter, result, route_vars, data_vars,
                   intent_task, group_by_task, intent_result, group_by_result>>

\* The extraction call raises, inside the try block.
ExtractionFails ==
    /\ pc = "extracting"
    /\ \E e \in ModelErrors :
          /\ filter_result' = Failed(e)
          /\ response' = NLExcept(e)
    /\ steps' = Append(steps, "filter_extraction failed")
    /\ pc' = "failed"
    /\ UNCHANGED <<table, df, id_col, filter, result, route_vars, data_vars,
                   intent_task, group_by_task, intent_result, group_by_result>>

\* return apply_structured_filter(df, filter_structure, id_col,
\* attribute_cols)  (line 83)
ApplyExtractedFilter ==
    /\ pc = "extracted"
    /\ filter' = filter_result.result.filter_object
    /\ result' = apply_filter(df, filter')
    /\ response' = NLRespond(df, result', id_col, projection)
    /\ steps' = Append(steps, "apply_structured_filter")
    /\ pc' = "filtered"
    /\ UNCHANGED <<table, df, id_col, route_vars, data_vars,
                   intent_task, group_by_task, intent_result, group_by_result,
                   filter_result>>

NextNL ==
    \/ NLFilterEntityData
    \/ CreateIntentTask
    \/ CreateGroupByTask
    \/ AwaitGather
    \/ IntentCompletes
    \/ IntentFails
    \/ GroupByCompletes
    \/ GroupByFails
    \/ GatherReturns
    \/ GatherRaises
    \/ EnrichNL
    \/ IntentCheck
    \/ IssueExtraction
    \/ ExtractionReturns
    \/ ExtractionFails
    \/ ApplyExtractedFilter

SpecNL == InitNL /\ [][NextNL]_vars

----------------------------------------------------------------------------
(* Claims about the natural-language filter request. *)

\* The position of call e in `steps`, 0 if it was not made.
Pos(e) ==
    IF \E i \in 1..Len(steps) : steps[i] = e
    THEN CHOOSE i \in 1..Len(steps) : steps[i] = e
    ELSE 0

Made(e) == Pos(e) > 0

Before(a, b) == Made(a) /\ Pos(a) < Pos(b)

AnyFailed == intent_task.state = "failed" \/ group_by_task.state = "failed"

\* C18: once either of the two model calls has failed, whatever the order in
\* which the two calls finish, the handler is still suspended in gather,
\* where all it can do is raise, or it has ended with status 500; neither
\* call's result reaches the handler, no enrichment, filter extraction or
\* filtering takes place, and no result list, empty or not, is returned.
C18_ModelFailureIs500 ==
    AnyFailed =>
        /\ pc \in {"awaiting", "failed"}
        /\ pc = "awaiting" => (ENABLED GatherRaises /\ ~ENABLED GatherReturns)
        /\ pc = "failed" => response.status = 500
        /\ "body" \notin DOMAIN response
        /\ intent_result = NoResult
        /\ group_by_result = NoResult
        /\ ~Made("add_computed_attributes")
        /\ ~Made("filter_extraction_chain.invoke")
        /\ ~Made("apply_structured_filter")
        /\ id_col = ""
        /\ filter_result = NoResult
        /\ result = NoResult

\* The grouping-column call returned a column of the table, then the intent
\* call failed: the request ended with status 500.
C18_Witness ==
    /\ intent_task.state = "failed"
    /\ group_by_task = Done([group_by_column |-> "merchant_id"])
    /\ Before("group_by_task done", "intent_task failed")
    /\ pc = "failed"
    /\ response.status = 500

\* The intent call returned filter_intent = false.
IntentFalse == intent_task.state = "done" /\ ~intent_task.result.filter_intent

\* The handler resumed with both results and ran to its end.
Ended == Made("gather returned") /\ pc \in {"failed", "filtered"}

\* C19 (as claimed): whenever the intent call returned filter_intent = false
\* the request ends with status 400 and the intent-not-recognized message,
\* whatever the grouping-column call returned.
C19_IntentFalseIs400 ==
    (IntentFalse /\ Ended) =>
        response = [status |-> 400,
                    detail |-> "Could not determine filtering criteria from query"]

\* C20: in a request whose intent call returned filter_intent = false the
\* filter-extraction call is never issued and apply_structured_filter is
\* never invoked.
C20_IntentFalseNoExtraction ==
    IntentFalse =>
        /\ ~Made("filter_extraction_chain.invoke")
        /\ ~Made("apply_structured_filter")
        /\ filter_result = NoResult
        /\ result = NoResult
        /\ pc \notin {"intent_ok", "extracting", "extracted", "filtered"}

\* The intent call returned false, the table was enriched on a column of the
\* menu, and the request ended at the intent check with status 400.
C20_Witness ==
    /\ IntentFalse
    /\ Ended
    /\ id_col = "merchant_id"
    /\ Made("add_computed_attributes")
    /\ response.status = 400

\* The filter-extraction call returned a null or empty filter_object.
NothingExtracted ==
    filter_result.state = "done" /\ Falsy(filter_result.result.filter_object)

\* C21 (as claimed): when the filter-extraction call returns a null or empty
\* filter_object the request ends with status 400 (filter not extracted)
\* and apply_structured_filter is not invoked.
C21_NothingExtractedIs400 ==
    ("state" \in DOMAIN filter_result /\ NothingExtracted) =>
        /\ response.status = 400
        /\ ~Made("apply_structured_filter")

\* C22 (as claimed): when the model returns the filter object F, the
\* natural-language request ends as the structured-filter route ends for F
\* on the same enriched table, id column and projection: the same entities
\* on success, the same status and detail on failure.
C22_NLSameAsStructured ==
    Made("apply_structured_filter") =>
        response = apply_structured_filter(df, filter, id_col, projection)

\* C23: a filter is applied entirely or not at all: when any node of the
\* filter object, at any depth, is a leaf with an unknown column or an
\* unsupported operator, the request fails (status 400 or 500) and returns no
\* entity, even when the leaf is a child of an `or` whose other children
\* select rows or of an `and` whose other children exclude every row.
C23_InvalidNodeFailsRequest ==
    (Filtered /\ \E n \in Nodes(filter) : BadLeaf(n)) =>
        /\ IsExc(result)
        /\ response.status \in {400, 500}
        /\ "body" \notin DOMAIN response

\* An `and` whose first child excludes every row of the table and whose
\* second child names an unknown column: the request fails.
C23_Witness ==
    /\ Filtered
    /\ IsAnd(filter)
    /\ Len(filter.and) = 2
    /\ GoodLeaf(filter.and[1])
    /\ \A i \in Rows : ~Selects(apply_filter(df, filter.and[1]), i)
    /\ BadLeaf(filter.and[2])
    /\ response.status = 400

----------------------------------------------------------------------------
(* The dataset provider:                                                   *)
(*   app/core/data.py      _df, _lock, load_data, _load_from_path, get_df, *)
(*                         replace_dataset                                 *)
(*   app/utils/caching.py  timed_cache, the decorator of get_df            *)
(*   app/routers/upload.py upload_transactions                             *)
(* A CSV file is [name, readable, table]: `table` is what pd.read_csv      *)
(* loads from it when the whole file parses (readable).  Uploads are calls *)
(* of replace_dataset with a file validate_and_stage accepted (it reads    *)
(* the header and five rows only); the reader is a route's Depends(get_df),*)
(* which the framework runs on a worker thread.  _df is shared_df.         *)

MaxUploads == 2     \* concurrent replace_dataset calls: 1..MaxUploads

\* @timed_cache(seconds=60) on get_df.
CacheSeconds == 60

Calls == 1..MaxUploads

FileRow(c) ==
    [customer_id |-> 1, merchant_id |-> c, terminal_id |-> 1,
     branch_admin_id |-> 1, agent_id |-> 1, amount |-> 1, date |-> [text |-> 1]]

FileTable(c, n) == MkDated([i \in 1..n |-> FileRow(c)])

\* The files call c may have staged: 1..MaxRows rows, the whole of it
\* parseable or not.
StagedFiles(c) ==
    {[name |-> c, readable |-> ok, table |-> FileTable(c, n)] :
        n \in 1..MaxRows, ok \in BOOLEAN}

\* The CSV deployed with the service.
InitialFile == [name |-> 0, readable |-> TRUE, table |-> FileTable(0, 1)]

\* pd.read_csv(path): the table, or the exception it raises.
read_csv(path) ==
    IF path = NoFile THEN Raise("FileNotFoundError", "")
    ELSE IF ~path.readable THEN Raise("ParserError", "")
    ELSE path.table

\* _load_from_path's except clause.
CouldNotRead == HTTPException(422, "Could not read CSV")

\* load_data when the file is missing.
NotFound == HTTPException(500, "Data file not found; upload a CSV first.")

\* The frame of the dataset provider's steps: no request is being served.
engine_vars ==
    <<table, df, id_col, filter, result, response, pc, request, projection>>

\* upload_transactions after validate_and_stage returned the path of f.
Staged(f) == [pc |-> "staged", file |-> f, df |-> Unloaded, ret |-> NoResult]

\* main.py lifespan: the CSV is loaded at startup when AUTO_RELOAD is set
\* and the file exists; otherwise _df stays None.
InitData ==
    /\ csv_path \in {NoFile, InitialFile}
    /\ shared_df \in {Unloaded} \cup
                     (IF csv_path = NoFile THEN {} ELSE {read_csv(csv_path)})
    /\ cache = NoEntry
    /\ lock = 0
    /\ \E staged \in [Calls -> UNION {StagedFiles(c) : c \in Calls}] :
           /\ \A c \in Calls : staged[c] \in StagedFiles(c)
           /\ uploads = [c \in Calls |-> Staged(staged[c])]
    /\ promoted = <<>>
    /\ reader = NoReader
    /\ table = InitialFile.table
    /\ df = table
    /\ id_col = ""
    /\ filter = NoFilter
    /\ result = NoResult
    /\ response = NoResponse
    /\ request = NoRequest
    /\ projection = <<>>
    /\ NoCalls
    /\ pc = "serving"

\* replace_dataset, `with _lock:` entered.
Acquire(c) ==
    /\ uploads[c].pc = "staged"
    /\ lock = 0
    /\ lock' = c
    /\ uploads' = [uploads EXCEPT ![c].pc = "locked"]
    /\ UNCHANGED <<csv_path, shared_df, cache, promoted, reader>>
    /\ UNCHANGED <<engine_vars, nl_vars>>

\* settings.csv_path.unlink(missing_ok=True).
Unlink(c) ==
    /\ uploads[c].pc = "locked"
    /\ csv_path' = NoFile
    /\ uploads' = [uploads EXCEPT ![c].pc = "unlinked"]
    /\ UNCHANGED <<lock, shared_df, cache, promoted, reader>>
    /\ UNCHANGED <<engine_vars, nl_vars>>

\* src_path.replace(settings.csv_path): the staged file becomes the CSV.
Replace(c) ==
    /\ uploads[c].pc = "unlinked"
    /\ csv_path' = uploads[c].file
    /\ promoted' = Append(promoted, c)
    /\ uploads' = [uploads EXCEPT ![c].pc = "promoted"]
    /\ UNCHANGED <<lock, shared_df, cache, reader>>
    /\ UNCHANGED <<engine_vars, nl_vars>>

\* _load_from_path, `_df = pd.read_csv(path)`: the global is assigned, or
\* HTTPException(422) leaves the `with` block and the call.
LoadStore(c) ==
    /\ uploads[c].pc = "promoted"
    /\ LET r == read_csv(csv_path)
       IN  IF IsExc(r)
           THEN /\ lock' = 0
                /\ uploads' = [uploads EXCEPT ![c].pc = "raised",
                                              ![c].ret = CouldNotRead]
                /\ UNCHANGED shared_df
           ELSE /\ shared_df' = r
                /\ uploads' = [uploads EXCEPT ![c].pc = "stored"]
                /\ UNCHANGED lock
    /\ UNCHANGED <<csv_path, cache, promoted, reader>>
    /\ UNCHANGED <<engine_vars, nl_vars>>

\* _load_from_path, `return _df`: the global is read again into the local
\* df, and the `with` block is left.
LoadReturn(c) ==
    /\ uploads[c].pc = "stored"
    /\ lock' = 0
    /\ uploads' = [uploads EXCEPT ![c].pc = "unlocked", ![c].df = shared_df]
    /\ UNCHANGED <<csv_path, shared_df, cache, promoted, reader>>
    /\ UNCHANGED <<engine_vars, nl_vars>>

\* `return len(df)`, the rows_loaded of the upload's response.
ReturnLen(c) ==
    /\ uploads[c].pc = "unlocked"
    /\ uploads' = [uploads EXCEPT ![c].pc = "returned",
                                  ![c].ret = Len(uploads[c].df.rows)]
    /\ UNCHANGED <<csv_path, shared_df, cache, lock, promoted, reader>>
    /\ UNCHANGED <<engine_vars, nl_vars>>

Finished(c) == uploads[c].pc \in {"returned", "raised"}

\* The table of the last successful load of an upload, Unloaded if none.
RECURSIVE LastLoadedIn(_)
LastLoadedIn(log) ==
    IF log = <<>> THEN Unloaded
    ELSE LET c == log[Len(log)]
         IN  IF uploads[c].pc \in {"stored", "unlocked", "returned"}
             THEN uploads[c].file.table
             ELSE LastLoadedIn(SubSeq(log, 1, Len(log) - 1))

LastLoaded == LastLoadedIn(promoted)

\* What a get_df() call hands to its route, with the uploads' progress at
\* that moment.
Returned(r) ==
    [pc |-> "returned", local |-> Unloaded, ret |-> r,
     newest |-> LastLoaded,
     after |-> \E c \in Calls : uploads[c].pc = "returned"]

\* The _cache entry the wrapper stores: (result, datetime.now()).
Entry(r) == [key |-> "get_df(){}", result |-> r, age |-> 0]

\* get_df() through the timed_cache wrapper: a cached result younger than
\* CacheSeconds is returned; otherwise get_df runs, returns _df when it is
\* not None and else enters load_data.
GetDf ==
    /\ reader.pc \in {"idle", "returned", "raised"}
    /\ IF cache # NoEntry /\ cache.age < CacheSeconds
       THEN /\ reader' = Returned(cache.result)
            /\ UNCHANGED cache
       ELSE IF shared_df # Unloaded
       THEN /\ reader' = Returned(shared_df)
            /\ cache' = Entry(shared_df)
       ELSE IF csv_path = NoFile
       THEN /\ reader' = [NoReader EXCEPT !.pc = "raised", !.ret = NotFound]
            /\ UNCHANGED cache
       ELSE /\ reader' = [NoReader EXCEPT !.pc = "loading"]
            /\ UNCHANGED cache
    /\ UNCHANGED <<csv_path, shared_df, lock, uploads, promoted>>
    /\ UNCHANGED <<engine_vars, nl_vars>>

\* load_data -> _load_from_path, pd.read_csv(path) evaluated (no lock is
\* taken on this path).
ReadCsv ==
    /\ reader.pc = "loading"
    /\ LET r == read_csv(csv_path)
       IN  reader' = IF IsExc(r)
                     THEN [NoReader EXCEPT !.pc = "raised", !.ret = CouldNotRead]
                     ELSE [NoReader EXCEPT !.pc = "read", !.local = r]
    /\ UNCHANGED <<csv_path, shared_df, cache, lock, uploads, promoted>>
    /\ UNCHANGED <<engine_vars, nl_vars>>

\* `_df = ...` of the lazy load: the global is assigned.
StoreDf ==
    /\ reader.pc = "read"
    /\ shared_df' = reader.local
    /\ reader' = [reader EXCEPT !.pc = "stored"]
    /\ UNCHANGED <<csv_path, cache, lock, uploads, promoted>>
    /\ UNCHANGED <<engine_vars, nl_vars>>

\* `return _df` of the lazy load, then the wrapper stores and returns it.
ReturnDf ==
    /\ reader.pc = "stored"
    /\ reader' = Returned(shared_df)
    /\ cache' = Entry(shared_df)
    /\ UNCHANGED <<csv_path, shared_df, lock, uploads, promoted>>
    /\ UNCHANGED <<engine_vars, nl_vars>>

Min(a, b) == IF a < b THEN a ELSE b

\* Time passes: half the cache period, or all of it.
Elapse ==
    /\ cache # NoEntry
    /\ cache.age < CacheSeconds
    /\ \E d \in {CacheSeconds \div 2, CacheSeconds} :
           cache' = [cache EXCEPT !.age = Min(cache.age + d, CacheSeconds)]
    /\ UNCHANGED <<csv_path, shared_df, lock, uploads, promoted, reader>>
    /\ UNCHANGED <<engine_vars, nl_vars>>

NextData ==
    \/ \E c \in Calls : Acquire(c)
    \/ \E c \in Calls : Unlink(c)
    \/ \E c \in Calls : Replace(c)
    \/ \E c \in Calls : LoadStore(c)
    \/ \E c \in Calls : LoadReturn(c)
    \/ \E c \in Calls : ReturnLen(c)
    \/ GetDf
    \/ ReadCsv
    \/ StoreDf
    \/ ReturnDf
    \/ Elapse

SpecData == InitData /\ [][NextData]_vars

----------------------------------------------------------------------------
(* Claims about the dataset provider. *)

\* C24: once a replace_dataset call has returned, a get_df() call returns
\* the table loaded last by an upload, never an earlier one.
C24_GetDfReturnsNewTable ==
    (reader.pc = "returned" /\ reader.after) => reader.ret = reader.newest

\* The in-memory table is the one the CSV on disk holds.
SameDataset == csv_path # NoFile /\ shared_df = csv_path.table

\* C25: when a replace_dataset call has finished, by returning or by
\* raising, and no other call is inside the lock, the CSV on disk and the
\* in-memory table hold the same dataset.
C25_ReplaceIsAtomic ==
    (lock = 0 /\ \E c \in Calls : Finished(c)) => SameDataset

\* C30: once every replace_dataset call has finished, the in-memory table
\* is the one of the file promoted last, which is the CSV on disk, and each
\* call that returned returned the row count of its own file.
C30_UploadsSerialized ==
    ((\A c \in Calls : Finished(c)) /\ promoted # <<>>) =>
        LET last == uploads[promoted[Len(promoted)]].file
        IN  /\ csv_path = last
            /\ shared_df = last.table
            /\ \A c \in Calls :
                   uploads[c].pc = "returned" =>
                       uploads[c].ret = Len(uploads[c].file.table.rows)

----------------------------------------------------------------------------
(* filter_entity_data (utils/router_helpers.py 5-58) over every date       *)
(* parameter of its routes.  Dates are days of January 2024.               *)

EntityTables == {MkDated(rows) : rows \in SeqsOf(RouteRows, 1, MaxRows)}

EntityColumns == {"agent_id", "merchant_id"}

\* The query parameters of a request: each left out or given.  February
\* (month 2) holds no transaction.
DateParams ==
    [year : {None, 2024}, month : {None, 2}, week : {None},
     day : {None, 1, 2}, range_days : {None, 1},
     start_date : {None, 1, 2}, end_date : {None, 1, 2}]

\* The day the request is served.
Todays == {3}

InitEntity ==
    /\ table \in EntityTables
    /\ shared_df = table
    /\ df = table
    /\ id_col = ""
    /\ filter = NoFilter
    /\ result = NoResult
    /\ response = NoResponse
    /\ request = NoRequest
    /\ projection = <<>>
    /\ NoCalls
    /\ NoUploads
    /\ pc = "loaded"

\* One call of filter_entity_data: `result` is the table it returned or the
\* HTTPException it raised.
FilterEntity ==
    /\ pc = "loaded"
    /\ \E entity_id_col \in EntityColumns, entity_id \in AgentIds,
          q \in DateParams, today \in Todays :
          LET r == filter_entity_data(shared_df, entity_id_col, entity_id, q, today)
          IN  /\ request' = [route |-> "filter_entity_data",
                             entity_id_col |-> entity_id_col,
                             entity_id |-> entity_id, q |-> q, today |-> today]
              /\ shared_df' = r.arg
              /\ result' = r.ret
              /\ df' = IF IsExc(r.ret) THEN r.arg ELSE r.ret
              /\ pc' = IF IsExc(r.ret) THEN "failed" ELSE "scoped"
    /\ UNCHANGED <<table, id_col, filter, response, projection>>
    /\ UNCHANGED nl_vars
    /\ UNCHANGED data_vars

NextEntity == FilterEntity

SpecEntity == InitEntity /\ [][NextEntity]_vars

----------------------------------------------------------------------------
(* Claims about filter_entity_data. *)

\* Row r (with its date parts) satisfies every date parameter of the
\* request that was supplied.
SatisfiesSupplied(r) ==
    LET q == request.q
    IN  /\ q.year # None => r.year = q.year
        /\ q.month # None => r.month = q.month
        /\ q.week # None => r.week = q.week
        /\ q.day # None => r.day = q.day
        /\ q.start_date # None => r.date.ts >= q.start_date
        /\ q.end_date # None => r.date.ts <= q.end_date
        /\ q.range_days # None =>
               /\ r.date.ts >= request.today - q.range_days
               /\ r.date.ts <= request.today

\* The rows of the requested entity in the table the call was given.
OwnRows ==
    SelectSeq(prepare_date_columns(table).rows,
              LAMBDA r : r[request.entity_id_col] = request.entity_id)

\* C26: filter_entity_data returns a non-empty table of rows of the
\* requested entity that satisfy every supplied date parameter, or raises
\* 404 'No data found for this <entity>' when the entity has no rows and
\* 404 'No data after filtering' when it has rows and none satisfies them.
C26_EntityRowsOr404 ==
    (pc # "loaded" /\ request.route = "filter_entity_data") =>
        IF IsExc(result)
        THEN /\ result.status = 404
             /\ OwnRows = <<>> =>
                    result.msg = "No data found for this "
                                     \o EntityName(request.entity_id_col)
             /\ OwnRows # <<>> =>
                    /\ result.msg = "No data after filtering"
                    /\ SelectSeq(OwnRows, SatisfiesSupplied) = <<>>
        ELSE /\ result.rows # <<>>
             /\ \A i \in 1..Len(result.rows) :
                    /\ result.rows[i][request.entity_id_col] = request.entity_id
                    /\ SatisfiesSupplied(result.rows[i])

----------------------------------------------------------------------------
(* Claims about the grouping column of the natural-language request. *)

\* The grouping-column call returned null or a name that is no column of
\* the table, and gather handed it to the handler.
BadGrouping ==
    /\ Made("gather returned")
    /\ group_by_result.group_by_column \notin SeqToSet(table.columns)

\* C27: when the grouping column the model returned is null or no column of
\* the table, the request fails with status 500 in add_computed_attributes:
\* the handler is about to enrich or has ended there, the intent result was
\* never examined (no projection was built, and no 400 answered) and the
\* filter-extraction call and the structured filter were not issued.
C27_BadGroupingIs500 ==
    BadGrouping =>
        /\ pc \in {"joined", "failed"}
        /\ pc = "failed" =>
               /\ response.status = 500
               /\ steps[Len(steps)] = "add_computed_attributes"
        /\ projection = <<>>
        /\ ~Made("filter_extraction_chain.invoke")
        /\ ~Made("apply_structured_filter")

\* The grouping column is unusable, the intent call said the query is no
\* filter request, and the request has ended (with 500, not 400).
C27_Witness ==
    /\ BadGrouping
    /\ pc = "failed"
    /\ ~intent_result.filter_intent
    /\ response.status = 500

----------------------------------------------------------------------------
(* Claims about the dispatch of apply_filter. *)

LeafKeys == {"column", "operator", "value"}

\* The number of tags on the top node of f: 'and', 'or', 'not', comparison.
TagCount(f) ==
    Cardinality({"and", "or", "not"} \cap DOMAIN f)
        + (IF LeafKeys \cap DOMAIN f # {} THEN 1 ELSE 0)

\* f with only its earliest tag, in the order and, or, not, comparison.
EarliestTag(f) ==
    IF "and" \in DOMAIN f THEN [and |-> f.and]
    ELSE IF "or" \in DOMAIN f THEN [or |-> f.or]
    ELSE IF "not" \in DOMAIN f THEN [not |-> f.not]
    ELSE f

\* C28: a node with more than one tag is evaluated as its earliest tag in
\* the order and, or, not, comparison: the outcome is that of the node
\* with only that tag, whatever the other keys hold.
C28_EarliestTagWins ==
    (Filtered /\ TagCount(filter) > 1) =>
        /\ result = apply_filter(df, EarliestTag(filter))
        /\ IsAnd(filter) => result = apply_filter(df, filter.and[1])
        /\ IsOr(filter) =>
               result = apply_filter(df, filter.or[1])

\* A node with 'and' and 'or' whose 'or' child names an unknown column
\* selects the rows of its 'and' child, without error.
C28_Witness ==
    /\ Filtered
    /\ "and" \in DOMAIN filter
    /\ "or" \in DOMAIN filter
    /\ BadLeaf(filter.or[1])
    /\ ~IsExc(result)
    /\ \E i \in Rows : Selects(result, i)
    /\ \E i \in Rows : ~Selects(result, i)

----------------------------------------------------------------------------
(* Claims about negation. *)

\* Row i has a null cell in the column leaf f names.
NullAt(f, i) == IsNull(f.column, df.rows[i][f.column])

\* The operator of which not_equals, not_in is the negative form, and back.
Positive(op) == IF op = "not_equals" THEN "equals" ELSE "in"

Negative(op) == IF op = "equals" THEN "not_equals" ELSE "not_in"

\* C29: not(E) selects exactly the rows E does not select; so on a row
\* whose cell is null not(equals), not(greater_than), not(in), not_equals
\* and not_in all select the row, and not_equals evaluates as not(equals)
\* and not_in as not(in), whichever of the two forms the request uses.
C29_NegationIsComplement ==
    /\ (Filtered /\ IsNot(filter)) =>
          LET inner == apply_filter(df, filter.not)
          IN  IF IsExc(inner) THEN result = inner
              ELSE /\ ~IsExc(result)
                   /\ \A i \in Rows : Selects(result, i) <=> ~Selects(inner, i)
    /\ (Filtered /\ IsNot(filter) /\ IsTriple(filter.not)
            /\ KnownColumn(filter.not)
            /\ filter.not.operator \in {"equals", "greater_than", "in"}) =>
          /\ ~IsExc(result) =>
                 \A i \in Rows : NullAt(filter.not, i) => Selects(result, i)
          /\ filter.not.operator \in {"equals", "in"} =>
                 result = apply_filter(df, [filter.not EXCEPT
                                               !.operator = Negative(@)])
    /\ (Filtered /\ IsTriple(filter) /\ KnownColumn(filter)
            /\ filter.operator \in {"not_equals", "not_in"}) =>
          /\ ~IsExc(result) =>
                 \A i \in Rows : NullAt(filter, i) => Selects(result, i)
          /\ result = apply_filter(df, [not |-> [filter EXCEPT
                                                    !.operator = Positive(@)]])

\* not_equals on a column with a null cell in one row and the compared
\* value in another: the null row is selected, the other is not.
C29_Witness ==
    /\ Filtered
    /\ IsTriple(filter)
    /\ KnownColumn(filter)
    /\ filter.operator = "not_equals"
    /\ ~IsExc(result)
    /\ \E i, j \in Rows :
           /\ NullAt(filter, i) /\ Selects(result, i)
           /\ ~NullAt(filter, j) /\ ~Selects(result, j)

====
